---- MODULE Spec2Model ----
(***************************************************************************)
(* Apata desktop client: the end-to-end encrypted messaging core.          *)
(*                                                                         *)
(* Cryptographic values are symbolic.  A key is a record [t, id]: t is its *)
(* kind ("ecpub"/"ecpriv" for the P-256 signing pair, "xpub"/"xpriv" for   *)
(* the X25519 agreement pair, "empty" for the empty string, "garbage" for  *)
(* text that is no PEM block) and id names the key pair.  A signature is a *)
(* record [t, by, msg]: "sig" is a DER signature made with signing pair    *)
(* `by` over the PEM text of key `msg`; "empty", "badb64" (base64 with     *)
(* wrong padding) and "notder" (base64 of bytes that are no DER signature) *)
(* are the malformed shapes.                                               *)
(*                                                                         *)
(* Exception classes are imported from the package src.exceptions; a raise *)
(* is modelled by the name of the class raised, and the class hierarchy is *)
(* the one src/exceptions/exceptions.py declares.                          *)
(***************************************************************************)
EXTENDS Integers, Sequences, FiniteSets, TLC

VARIABLES
    call,        \* the last completed call of a service operation
    sent,        \* envelopes handed to message_dao.send_message
    delivered,   \* entries handed to the message callback
    acked,       \* message ids acknowledged to the server
    current_token, \* MessageHTTPService._current_token is set
    state,       \* AppState (the in-memory session)
    vault,       \* the keyring: the ECDH entry of the user
    directory,   \* the server's current agreement public key of the user
    announced,   \* agreement key ids ever published to the directory
    rot,         \* the last rotate_keys run
    keyctr,      \* agreement key pairs generated so far
    local_user,  \* the local database holds the user's record
    contact_ecdh, \* the agreement public key in the local record of the contact
    keyring,     \* the system keyring: the entries of the user, byte by byte
    hist,        \* what register_master_key and the stores last wrote
    tasks,       \* store and clear calls in progress, each at its await point
    ws,          \* MessageHTTPService's listener, its WebSocketDAO and the socket
    loading      \* the loading screen's run of its initialization steps

vars == <<call, sent, delivered, acked, current_token,
          state, vault, directory, announced, rot, keyctr, local_user,
          contact_ecdh, keyring, hist, tasks, ws, loading>>

encVars == <<call, sent, delivered, acked, current_token>>
rotVars == <<state, vault, directory, announced, rot, keyctr, local_user>>
contactVars == <<contact_ecdh>>
vaultVars == <<keyring, hist, tasks>>
wsVars == <<ws>>
loadVars == <<loading>>
\* what the operations of EncryptionService and MessageHTTPService leave alone
nonEncVars == <<rotVars, contactVars, vaultVars, wsVars, loadVars>>
\* what the operations of the session leave alone
nonRotVars == <<encVars, contactVars, vaultVars, wsVars, loadVars>>
\* what the operations of the key storage leave alone
nonVaultVars == <<sent, delivered, acked, current_token, rotVars, contactVars, wsVars, loadVars>>
nonWsVars == <<sent, delivered, acked, current_token, rotVars, contactVars, vaultVars, loadVars>>

-----------------------------------------------------------------------------
(* Bounds *)

MaxBatch == 2
MaxKeys == 3

-----------------------------------------------------------------------------
(* Symbolic values *)

Key(t, id) == [t |-> t, id |-> id]
EmptyKey == Key("empty", "-")
GarbageKey == Key("garbage", "-")

Sig(by, msg) == [t |-> "sig", by |-> by, msg |-> msg]
EmptySig == [t |-> "empty", by |-> "-", msg |-> EmptyKey]
BadB64Sig == [t |-> "badb64", by |-> "-", msg |-> EmptyKey]
NotDerSig == [t |-> "notder", by |-> "-", msg |-> EmptyKey]

NoShared == [t |-> "none", ks |-> {}]
Ct(shared, pt) == [t |-> "ct", ks |-> shared.ks, pt |-> pt]
NoCt == [t |-> "none", ks |-> {}, pt |-> ""]
NoPlain == "<none>"

-----------------------------------------------------------------------------
(* Exceptions *)

\* The base class of each exception class.
Parent(c) ==
    CASE c = "BaseAppError" -> "Exception"
      [] c \in {"UserAlreadyExistsError", "UserNotRegisteredError",
                "ContactAlreadyExistsError", "AuthenticationError",
                "InfrastructureError", "APIError", "ValidationError",
                "NonRetryableError"} -> "BaseAppError"
      [] c \in {"NetworkError", "CryptographyError", "MessageDeliveryError",
                "RetryableError"} -> "InfrastructureError"
      [] c \in {"KeyGenerationError", "EncryptionError", "DecryptionError",
                "SignatureError"} -> "CryptographyError"
      [] c \in {"UnicodeDecodeError", "UnicodeEncodeError"} -> "ValueError"
      [] OTHER -> "Exception"

RECURSIVE IsInstance(_, _)
\* isinstance(exception of class c, one of the classes in cs)
IsInstance(c, cs) ==
    IF c \in cs THEN TRUE
    ELSE IF c = "Exception" THEN FALSE
    ELSE IsInstance(Parent(c), cs)

-----------------------------------------------------------------------------
(* SECP256R1Signature *)

\* _verify_signature: the result is "true" or the class raised.
_verify_signature(public_key_pem, string, signature) ==
    IF public_key_pem.t = "empty" THEN "ValueError"
    ELSE IF string.t = "empty" THEN "ValueError"
    ELSE IF signature.t = "empty" THEN "ValueError"
    ELSE IF signature.t = "badb64" THEN "InvalidCiphertextError"
    ELSE IF public_key_pem.t = "garbage" THEN "ValueError"
    ELSE IF public_key_pem.t # "ecpub" THEN "TypeError"
    ELSE IF /\ signature.t = "sig"
            /\ signature.by = public_key_pem.id
            /\ signature.msg = string
         THEN "true"
         ELSE "SignatureError"

\* verify_signature: [exc, val]; val is the boolean returned when exc = "none".
verify_signature(public_key_pem, message, signature) ==
    LET r == _verify_signature(public_key_pem, message, signature) IN
    IF r = "true" THEN [exc |-> "none", val |-> TRUE]
    ELSE IF IsInstance(r, {"ValueError", "TypeError", "InvalidCiphertextError"})
         THEN [exc |-> r, val |-> FALSE]
    ELSE IF IsInstance(r, {"SignatureError"})
         THEN [exc |-> "none", val |-> FALSE]
    ELSE [exc |-> "CryptographyError", val |-> FALSE]

\* _sign_string: a signature or the class raised.
_sign_string(private_key_pem, string) ==
    IF private_key_pem.t = "empty" THEN [exc |-> "ValueError", sig |-> EmptySig]
    ELSE IF string.t = "empty" THEN [exc |-> "ValueError", sig |-> EmptySig]
    ELSE IF private_key_pem.t = "garbage" THEN [exc |-> "ValueError", sig |-> EmptySig]
    ELSE IF private_key_pem.t # "ecpriv" THEN [exc |-> "TypeError", sig |-> EmptySig]
    ELSE [exc |-> "none", sig |-> Sig(private_key_pem.id, string)]

sign_string(private_key_pem, string) ==
    LET r == _sign_string(private_key_pem, string) IN
    IF r.exc = "none" \/ IsInstance(r.exc, {"ValueError", "TypeError"}) THEN r
    ELSE [exc |-> "CryptographyError", sig |-> EmptySig]

-----------------------------------------------------------------------------
(* X25519Cipher *)

_derive_shared_key(private_key_pem, peer_public_key_pem) ==
    IF private_key_pem.t = "empty" \/ peer_public_key_pem.t = "empty"
    THEN [exc |-> "ValueError", key |-> NoShared]
    ELSE IF private_key_pem.t = "garbage" \/ peer_public_key_pem.t = "garbage"
    THEN [exc |-> "ValueError", key |-> NoShared]
    ELSE IF private_key_pem.t # "xpriv" THEN [exc |-> "TypeError", key |-> NoShared]
    ELSE IF peer_public_key_pem.t # "xpub" THEN [exc |-> "TypeError", key |-> NoShared]
    ELSE [exc |-> "none",
          key |-> [t |-> "shared", ks |-> {private_key_pem.id, peer_public_key_pem.id}]]

derive_shared_key(private_key_pem, peer_public_key_pem) ==
    LET r == _derive_shared_key(private_key_pem, peer_public_key_pem) IN
    IF r.exc = "none" \/ IsInstance(r.exc, {"ValueError", "TypeError"}) THEN r
    ELSE [exc |-> "CryptographyError", key |-> NoShared]

-----------------------------------------------------------------------------
(* AES256GCMCipher *)

\* encrypt: a derived key is always 32 bytes long.
aes_encrypt(plaintext, key) ==
    IF key.t # "shared" THEN [exc |-> "InvalidKeyError", ct |-> NoCt]
    ELSE [exc |-> "none", ct |-> Ct(key, plaintext)]

\* _safe_decrypt on a well-formed base64 blob: the tag checks only under the
\* key the blob was sealed with.
aes_decrypt(ciphertext, key) ==
    IF ciphertext.t # "ct" THEN [exc |-> "InvalidCiphertextError", plain |-> NoPlain]
    ELSE IF key.t # "shared" THEN [exc |-> "InvalidKeyError", plain |-> NoPlain]
    ELSE IF ciphertext.ks = key.ks THEN [exc |-> "none", plain |-> ciphertext.pt]
    ELSE [exc |-> "DecryptionError", plain |-> NoPlain]

-----------------------------------------------------------------------------
(* AES256GCMCipher: the layout of the blob.  A byte is a cell                *)
(* [part, i, k, n, b, x]: what it is part of, its index there, the key and  *)
(* nonce it was computed under, the plaintext byte it carries, and whether  *)
(* it was altered since.  A base64 string is [bytes, slack, alpha]: the     *)
(* bytes its characters carry, the unused trailing bits of its last         *)
(* character, and whether every character is of the alphabet.               *)

NonceLen == 12
TagLen == 16
MinBlob == 28
KeyBytes == 32

\* len(key): a derived key is 32 bytes, the short one half of that.
KeyLen(key) == IF key.t = "shared" THEN KeyBytes ELSE KeyBytes \div 2

\* str.encode(): UTF-8.
RECURSIVE utf8_encode(_)
utf8_encode(str) ==
    IF str = <<>> THEN <<>>
    ELSE (IF Head(str) = "e'" THEN <<195, 169>> ELSE <<104>>) \o utf8_encode(Tail(str))

\* bytes.decode(): [ok, str].
RECURSIVE utf8_decode(_)
utf8_decode(bytes) ==
    IF bytes = <<>> THEN [ok |-> TRUE, str |-> <<>>]
    ELSE IF Head(bytes) < 128
    THEN LET r == utf8_decode(Tail(bytes)) IN
         [ok |-> r.ok, str |-> <<"h">> \o r.str]
    ELSE IF Len(bytes) >= 2 /\ Head(bytes) = 195 /\ bytes[2] = 169
    THEN LET r == utf8_decode(Tail(Tail(bytes))) IN
         [ok |-> r.ok, str |-> <<"e'">> \o r.str]
    ELSE [ok |-> FALSE, str |-> <<>>]

Cell(part, i, k, n, b) == [part |-> part, i |-> i, k |-> k, n |-> n, b |-> b, x |-> 0]

\* os.urandom(12), the r-th draw.
urandom(r) == [i \in 1..NonceLen |-> Cell("nonce", i, {}, <<r>>, 0)]

\* AES-GCM under key and nonce: the ciphertext is as long as the data, the
\* tag covers key, nonce and data.
gcm_encrypt(key, nonce, data) ==
    [ciphertext |-> [i \in 1..Len(data) |-> Cell("ct", i, key.ks, nonce, data[i])],
     tag |-> [i \in 1..TagLen |-> Cell("tag", i, key.ks, nonce, data)]]

\* AES-GCM decryption: the data, or InvalidTag unless ciphertext and tag are
\* what gcm_encrypt gives for that data under this key and nonce.
gcm_decrypt(key, nonce, ciphertext_data, tag) ==
    LET data == [i \in 1..Len(ciphertext_data) |-> ciphertext_data[i].b]
        expect == gcm_encrypt(key, nonce, data)
    IN
    IF ciphertext_data = expect.ciphertext /\ tag = expect.tag
    THEN [exc |-> "none", data |-> data]
    ELSE [exc |-> "InvalidTag", data |-> <<>>]

b64encode(bytes) == [bytes |-> bytes, slack |-> 0, alpha |-> TRUE]
EmptyB64 == b64encode(<<>>)

\* base64.b64decode(s, validate=True): [ok, bytes]; the unused trailing bits
\* are dropped unread.
b64decode(str) ==
    IF ~str.alpha THEN [ok |-> FALSE, bytes |-> <<>>]
    ELSE [ok |-> TRUE, bytes |-> str.bytes]

\* _safe_encrypt with the r-th random nonce: [exc, out].
_safe_encrypt(plaintext, key, r) ==
    IF KeyLen(key) # KeyBytes THEN [exc |-> "InvalidKeyError", out |-> EmptyB64]
    ELSE LET nonce == urandom(r)
             e == gcm_encrypt(key, nonce, utf8_encode(plaintext))
             combined == nonce \o e.ciphertext \o e.tag
         IN [exc |-> "none", out |-> b64encode(combined)]

\* AES256GCMCipher.encrypt: [exc, out].
encrypt(plaintext, key, r) ==
    LET e == _safe_encrypt(plaintext, key, r) IN
    IF e.exc = "none" \/ IsInstance(e.exc, {"InvalidKeyError", "ValueError"}) THEN e
    ELSE [exc |-> "EncryptionError", out |-> EmptyB64]

\* _safe_decrypt slicing nonce, tag, ciphertext, the order of the keyring
\* entries, where the blob holds nonce, ciphertext, tag.
_safe_decrypt_tag_before_data(b64_ciphertext, key) ==
    LET d == b64decode(b64_ciphertext)
        ciphertext == d.bytes
        n == Len(ciphertext)
        nonce == SubSeq(ciphertext, 1, NonceLen)
        tag == SubSeq(ciphertext, NonceLen + 1, NonceLen + TagLen)
        ciphertext_data == SubSeq(ciphertext, NonceLen + TagLen + 1, n)
        g == gcm_decrypt(key, nonce, ciphertext_data, tag)
        u == utf8_decode(g.data)
        fail(exc) == [exc |-> exc, out |-> <<>>]
    IN
    IF b64_ciphertext = EmptyB64 THEN fail("InvalidCiphertextError")
    ELSE IF ~d.ok THEN fail("InvalidCiphertextError")
    ELSE IF n < MinBlob THEN fail("InvalidCiphertextError")
    ELSE IF KeyLen(key) # KeyBytes THEN fail("InvalidKeyError")
    ELSE IF g.exc = "InvalidTag" THEN fail("DecryptionError")
    ELSE IF ~u.ok THEN fail("UnicodeDecodeError")
    ELSE [exc |-> "none", out |-> u.str]

\* _safe_decrypt: [exc, out].
_safe_decrypt(b64_ciphertext, key) ==
    LET d == b64decode(b64_ciphertext)
        ciphertext == d.bytes
        n == Len(ciphertext)
        nonce == SubSeq(ciphertext, 1, NonceLen)
        ciphertext_data == SubSeq(ciphertext, NonceLen + 1, n - TagLen)
        tag == SubSeq(ciphertext, n - TagLen + 1, n)
        g == gcm_decrypt(key, nonce, ciphertext_data, tag)
        u == utf8_decode(g.data)
        fail(exc) == [exc |-> exc, out |-> <<>>]
    IN
    IF b64_ciphertext = EmptyB64 THEN fail("InvalidCiphertextError")
    ELSE IF ~d.ok THEN fail("InvalidCiphertextError")
    ELSE IF n < MinBlob THEN fail("InvalidCiphertextError")
    ELSE IF KeyLen(key) # KeyBytes THEN fail("InvalidKeyError")
    ELSE IF g.exc = "InvalidTag" THEN fail("DecryptionError")
    ELSE IF ~u.ok THEN fail("UnicodeDecodeError")
    ELSE [exc |-> "none", out |-> u.str]

\* AES256GCMCipher.decrypt: [exc, out].
decrypt(b64_ciphertext, key) ==
    LET r == _safe_decrypt(b64_ciphertext, key) IN
    IF r.exc = "none" THEN r
    ELSE IF IsInstance(r.exc, {"InvalidKeyError", "InvalidCiphertextError", "ValueError"})
    THEN r
    ELSE [exc |-> "DecryptionError", out |-> <<>>]

-----------------------------------------------------------------------------
(* KeyManager.  Byte strings are sequences of cells.  None and the empty    *)
(* string are one value: the code tests both with `not`.                    *)

SaltLen == 16
None == <<>>

\* not x, for x a byte string, a str or None
Falsy(x) == x = <<>>

\* What tells one random or derived byte string from another: where its
\* bytes come from.
Origin(bytes) == {<<bytes[i].part, bytes[i].k, bytes[i].n>> : i \in 1..Len(bytes)}

\* AES(key) for raw key bytes
RawKey(bytes) == [t |-> "raw", ks |-> Origin(bytes)]

\* os.urandom(16), the s-th draw
urandom_salt(s) == [i \in 1..SaltLen |-> Cell("salt", i, {}, <<s>>, 0)]

\* secrets.token_bytes(32), the g-th draw
generate_master_key(g) == [i \in 1..KeyBytes |-> Cell("master", i, {}, <<g>>, 0)]

\* derive_key_from_password: PBKDF2 of password and salt, 32 bytes; the
\* callers below answer its ValueError for an empty password themselves.
derive_key_from_password(password, salt) ==
    [i \in 1..KeyBytes |-> Cell("pbkdf2", i, {password}, <<Origin(salt)>>, 0)]

\* _encrypt_with_master_key with the r-th nonce: [exc, out]
_encrypt_with_master_key(data, master_key, r) ==
    IF Len(master_key) # KeyBytes THEN [exc |-> "ValueError", out |-> None]
    ELSE LET nonce == urandom(r)
             e == gcm_encrypt(RawKey(master_key), nonce, data)
         IN [exc |-> "none", out |-> nonce \o e.tag \o e.ciphertext]

\* encrypt_with_master_key: the bytes or None
encrypt_with_master_key(data, master_key, r) ==
    IF Falsy(data) \/ Falsy(master_key) THEN None
    ELSE LET e == _encrypt_with_master_key(data, master_key, r) IN
         IF e.exc = "none" THEN e.out ELSE None

\* _decrypt_with_master_key that takes the tag from the end of the blob
_decrypt_with_master_key_tag_last(encrypted_data, master_key) ==
    LET n == Len(encrypted_data)
        nonce == SubSeq(encrypted_data, 1, NonceLen)
        ciphertext == SubSeq(encrypted_data, NonceLen + 1, n - TagLen)
        tag == SubSeq(encrypted_data, n - TagLen + 1, n)
        g == gcm_decrypt(RawKey(master_key), nonce, ciphertext, tag)
    IN
    IF n < MinBlob THEN [exc |-> "ValueError", out |-> None]
    ELSE IF g.exc # "none" THEN [exc |-> "InvalidTag", out |-> None]
    ELSE [exc |-> "none", out |-> g.data]

\* _decrypt_with_master_key: [exc, out]
_decrypt_with_master_key(encrypted_data, master_key) ==
    LET n == Len(encrypted_data)
        nonce == SubSeq(encrypted_data, 1, NonceLen)
        tag == SubSeq(encrypted_data, NonceLen + 1, MinBlob)
        ciphertext == SubSeq(encrypted_data, MinBlob + 1, n)
        g == gcm_decrypt(RawKey(master_key), nonce, ciphertext, tag)
    IN
    IF n < MinBlob THEN [exc |-> "ValueError", out |-> None]
    ELSE IF g.exc # "none" THEN [exc |-> "InvalidTag", out |-> None]
    ELSE [exc |-> "none", out |-> g.data]

\* decrypt_with_master_key: [exc, out]; it returns None for InvalidTag and
\* ValueError and lets any other exception pass.
decrypt_with_master_key(encrypted_data, master_key) ==
    IF Falsy(encrypted_data) \/ Falsy(master_key) THEN [exc |-> "none", out |-> None]
    ELSE LET d == _decrypt_with_master_key(encrypted_data, master_key) IN
         IF d.exc = "none" THEN d
         ELSE IF d.exc = "InvalidTag" \/ IsInstance(d.exc, {"ValueError"})
         THEN [exc |-> "none", out |-> None]
         ELSE d

\* _encrypt_master_key with the s-th salt and the r-th nonce:
\* [exc, encrypted_data, salt]
_encrypt_master_key(master_key, password, s, r) ==
    LET salt == urandom_salt(s)
        key == derive_key_from_password(password, salt)
        nonce == urandom(r)
        e == gcm_encrypt(RawKey(key), nonce, master_key)
    IN
    IF password = "" THEN [exc |-> "ValueError", encrypted_data |-> None, salt |-> None]
    ELSE [exc |-> "none", encrypted_data |-> nonce \o e.tag \o e.ciphertext,
          salt |-> salt]

\* encrypt_master_key: [encrypted_data, salt], both None on failure
encrypt_master_key(master_key, password, s, r) ==
    IF Falsy(master_key) \/ password = ""
    THEN [encrypted_data |-> None, salt |-> None]
    ELSE LET e == _encrypt_master_key(master_key, password, s, r) IN
         IF e.exc = "none" THEN [encrypted_data |-> e.encrypted_data, salt |-> e.salt]
         ELSE [encrypted_data |-> None, salt |-> None]

\* _decrypt_master_key that returns what it decrypted without the tag check
_decrypt_master_key_unauthenticated(encrypted_data, password, salt) ==
    LET n == Len(encrypted_data)
        ciphertext == SubSeq(encrypted_data, MinBlob + 1, n)
    IN
    IF n < MinBlob THEN [exc |-> "ValueError", out |-> None]
    ELSE [exc |-> "none", out |-> [i \in 1..Len(ciphertext) |-> ciphertext[i].b]]

\* _decrypt_master_key: [exc, out]; InvalidTag is re-raised as ValueError.
_decrypt_master_key(encrypted_data, password, salt) ==
    LET n == Len(encrypted_data)
        nonce == SubSeq(encrypted_data, 1, NonceLen)
        tag == SubSeq(encrypted_data, NonceLen + 1, MinBlob)
        ciphertext == SubSeq(encrypted_data, MinBlob + 1, n)
        key == derive_key_from_password(password, salt)
        g == gcm_decrypt(RawKey(key), nonce, ciphertext, tag)
    IN
    IF n < MinBlob THEN [exc |-> "ValueError", out |-> None]
    ELSE IF g.exc # "none" THEN [exc |-> "ValueError", out |-> None]
    ELSE [exc |-> "none", out |-> g.data]

\* decrypt_master_key: the master key or None, whatever went wrong
decrypt_master_key(encrypted_data, password, salt) ==
    IF Falsy(encrypted_data) \/ password = "" \/ Falsy(salt) THEN None
    ELSE LET d == _decrypt_master_key(encrypted_data, password, salt) IN
         IF d.exc = "none" THEN d.out ELSE None

-----------------------------------------------------------------------------
(* EncryptedKeyStorage over the system keyring.  The keyring kr has one     *)
(* entry [present, str] per service name, NoEntry where get_password        *)
(* returns None.  Every keyring call either works or raises KeyringError:   *)
(* ok1, ok2 say which, for the calls of a method in the order it makes      *)
(* them.                                                                    *)

NoEntry == [present |-> FALSE, str |-> EmptyB64]
Entry(str) == [present |-> TRUE, str |-> str]
EmptyKeyring == [master |-> NoEntry, ecdh |-> NoEntry, ecdsa |-> NoEntry]

\* base64.b64decode(s) without validate: characters outside the alphabet are
\* skipped
b64decode_lenient(str) == str.bytes

\* is_master_key_registered: KeyringError is answered False
is_master_key_registered(kr, ok1) ==
    IF ~ok1 THEN FALSE
    ELSE kr.master.present /\ kr.master.str.bytes # <<>>

\* register_master_key with the g-th master key, the s-th salt and the r-th
\* nonce: [ret, kr]
register_master_key(kr, username, password, g, s, r, ok1, ok2) ==
    IF username = "" \/ password = "" THEN [ret |-> FALSE, kr |-> kr]
    ELSE IF is_master_key_registered(kr, ok1) THEN [ret |-> FALSE, kr |-> kr]
    ELSE LET master_key == generate_master_key(g)
             e == encrypt_master_key(master_key, password, s, r)
         IN
         IF Falsy(e.encrypted_data) \/ Falsy(e.salt) THEN [ret |-> FALSE, kr |-> kr]
         ELSE IF ~ok2 THEN [ret |-> FALSE, kr |-> kr]
         ELSE [ret |-> TRUE,
               kr |-> [kr EXCEPT !.master = Entry(b64encode(e.salt \o e.encrypted_data))]]

\* get_master_key: the master key, or None with the reason logged only
get_master_key(kr, username, password, ok1) ==
    IF username = "" \/ password = "" THEN None
    ELSE IF ~ok1 THEN None
    ELSE IF ~kr.master.present \/ kr.master.str.bytes = <<>> THEN None
    ELSE LET decoded_data == b64decode_lenient(kr.master.str)
             salt == SubSeq(decoded_data, 1, SaltLen)
             encrypted_master_key == SubSeq(decoded_data, SaltLen + 1, Len(decoded_data))
         IN
         IF Len(decoded_data) < SaltLen THEN None
         ELSE decrypt_master_key(encrypted_master_key, password, salt)

\* The body store_ecdh_private_key and store_ecdsa_private_key share, for
\* the entry of one service: [ret, kr]
store_private_key(service, kr, username, private_key, password, r, ok1, ok2) ==
    IF username = "" \/ Falsy(private_key) \/ password = "" THEN [ret |-> FALSE, kr |-> kr]
    ELSE LET master_key == get_master_key(kr, username, password, ok1)
             encrypted == encrypt_with_master_key(utf8_encode(private_key), master_key, r)
         IN
         IF Falsy(master_key) THEN [ret |-> FALSE, kr |-> kr]
         ELSE IF Falsy(encrypted) THEN [ret |-> FALSE, kr |-> kr]
         ELSE IF ~ok2 THEN [ret |-> FALSE, kr |-> kr]
         ELSE [ret |-> TRUE, kr |-> [kr EXCEPT ![service] = Entry(b64encode(encrypted))]]

store_ecdh_private_key(kr, username, ecdh_private_key, password, r, ok1, ok2) ==
    store_private_key("ecdh", kr, username, ecdh_private_key, password, r, ok1, ok2)

store_ecdsa_private_key(kr, username, password, private_key_pem, r, ok1, ok2) ==
    store_private_key("ecdsa", kr, username, private_key_pem, password, r, ok1, ok2)

\* The body get_ecdh_private_key and get_ecdsa_private_key share: the key
\* text or None
get_private_key(service, kr, username, password, ok1, ok2) ==
    IF username = "" \/ password = "" THEN None
    ELSE LET master_key == get_master_key(kr, username, password, ok1)
             encrypted == kr[service]
             d == decrypt_with_master_key(b64decode_lenient(encrypted.str), master_key)
             text == utf8_decode(d.out)
         IN
         IF Falsy(master_key) THEN None
         ELSE IF ~ok2 THEN None
         ELSE IF ~encrypted.present \/ encrypted.str.bytes = <<>> THEN None
         ELSE IF d.exc # "none" \/ Falsy(d.out) THEN None
         ELSE IF ~text.ok THEN None
         ELSE text.str

get_ecdh_private_key(kr, username, password, ok1, ok2) ==
    get_private_key("ecdh", kr, username, password, ok1, ok2)

get_ecdsa_private_key(kr, username, password, ok1, ok2) ==
    get_private_key("ecdsa", kr, username, password, ok1, ok2)

\* keyring.delete_password: PasswordDeleteError when there is no entry
delete_password(kr, service, ok) ==
    IF ~ok \/ ~kr[service].present THEN [exc |-> "KeyringError", kr |-> kr]
    ELSE [exc |-> "none", kr |-> [kr EXCEPT ![service] = NoEntry]]

\* clear_ecdh_key: [ret, kr]
clear_ecdh_key(kr, username, ok1) ==
    IF username = "" THEN [ret |-> FALSE, kr |-> kr]
    ELSE LET d == delete_password(kr, "ecdh", ok1) IN
         [ret |-> d.exc = "none", kr |-> d.kr]

\* store_ecdh_private_key as the event loop runs it.  A call t is suspended
\* at t.pc: "start" before its first line, "decrypt_master_key" and
\* "encrypt_with_master_key" at the awaits of the two executor jobs; seen is
\* the master-key entry it read.  A step runs it to its next await with the
\* keyring as it is now, ok telling whether the keyring call of the step
\* works: [t, kr, ret, wrote]; t.pc = "done" after the return.

\* a store whose keyring backend writes nonce and tag first and the
\* ciphertext after one more suspension
store_ecdh_private_key_step_torn(t, kr, ok) ==
    LET asSeen == [kr EXCEPT !.master = t.seen]
        master_key == get_master_key(asSeen, t.username, t.password, TRUE)
        st == store_ecdh_private_key(asSeen, t.username, t.key, t.password, 1, TRUE, ok)
        new == st.kr.ecdh.str.bytes
        old == kr.ecdh.str.bytes
        stop == [t |-> [t EXCEPT !.pc = "done"], kr |-> kr, ret |-> FALSE, wrote |-> FALSE]
    IN
    IF t.pc = "start"
    THEN IF t.username = "" \/ Falsy(t.key) \/ t.password = "" THEN stop
         ELSE IF ~ok \/ ~kr.master.present THEN stop
         ELSE [t |-> [t EXCEPT !.pc = "decrypt_master_key", !.seen = kr.master],
               kr |-> kr, ret |-> FALSE, wrote |-> FALSE]
    ELSE IF t.pc = "decrypt_master_key"
    THEN IF Falsy(master_key) THEN stop
         ELSE [t |-> [t EXCEPT !.pc = "encrypt_with_master_key"],
               kr |-> kr, ret |-> FALSE, wrote |-> FALSE]
    ELSE IF t.pc = "encrypt_with_master_key"
    THEN IF ~st.ret THEN stop
         ELSE [t |-> [t EXCEPT !.pc = "set_password"],
               kr |-> [kr EXCEPT !.ecdh = Entry(b64encode(SubSeq(new, 1, MinBlob) \o SubSeq(old, MinBlob + 1, Len(old))))],
               ret |-> FALSE, wrote |-> FALSE]
    ELSE [t |-> [t EXCEPT !.pc = "done"],
          kr |-> [kr EXCEPT !.ecdh = Entry(b64encode(SubSeq(kr.ecdh.str.bytes, 1, MinBlob) \o SubSeq(new, MinBlob + 1, Len(new))))],
          ret |-> TRUE, wrote |-> TRUE]

store_ecdh_private_key_step(t, kr, ok) ==
    LET asSeen == [kr EXCEPT !.master = t.seen]
        master_key == get_master_key(asSeen, t.username, t.password, TRUE)
        st == store_ecdh_private_key(asSeen, t.username, t.key, t.password, 1, TRUE, ok)
        stop == [t |-> [t EXCEPT !.pc = "done"], kr |-> kr, ret |-> FALSE, wrote |-> FALSE]
    IN
    IF t.pc = "start"
    THEN IF t.username = "" \/ Falsy(t.key) \/ t.password = "" THEN stop
         ELSE IF ~ok \/ ~kr.master.present THEN stop
         ELSE [t |-> [t EXCEPT !.pc = "decrypt_master_key", !.seen = kr.master],
               kr |-> kr, ret |-> FALSE, wrote |-> FALSE]
    ELSE IF t.pc = "decrypt_master_key"
    THEN IF Falsy(master_key) THEN stop
         ELSE [t |-> [t EXCEPT !.pc = "encrypt_with_master_key"],
               kr |-> kr, ret |-> FALSE, wrote |-> FALSE]
    ELSE IF ~st.ret THEN stop
         ELSE [t |-> [t EXCEPT !.pc = "done"],
               kr |-> [kr EXCEPT !.ecdh = st.kr.ecdh],
               ret |-> TRUE, wrote |-> TRUE]

-----------------------------------------------------------------------------
(* EncryptionService *)

\* The attributes an EncryptionService object has: its methods and the four
\* fields __init__ sets.
EncryptionServiceAttrs ==
    {"_aes_cipher", "_ecdh_cipher", "_ecdsa_signer", "_logger",
     "encrypt_message", "decrypt_message", "generate_key_pairs",
     "sign_string", "verify_signature"}

\* The names bound inside decrypt_message: its parameters.
DecryptMessageNames ==
    {"self", "encrypted_message", "sender_ecdsa_public_key",
     "recipient_ecdh_private_key", "ephemeral_ecdh_public_key",
     "ephemeral_signature"}

\* The except clauses that close the try block of encrypt_message.
EncryptRaised(exc) ==
    IF IsInstance(exc, {"InvalidKeyError", "CryptographyError"}) THEN exc
    ELSE "InfrastructureError"

\* The except clauses that close the try block of decrypt_message.
DecryptRaised(exc) ==
    IF IsInstance(exc, {"InvalidCiphertextError", "InvalidKeyError"}) THEN exc
    ELSE "InfrastructureError"

EncFail(exc, calls) == [exc |-> exc, ct |-> NoCt, sig |-> EmptySig, calls |-> calls]

\* encrypt_message with the check of the verification result dropped.
encrypt_message_unchecked(message, sender_ecdsa_private_key, recipient_ecdsa_public_key, ephemeral_ecdh_private_key, ephemeral_ecdh_public_key, recipient_ecdh_public_key, recipient_ecdh_signature) ==
    LET v == verify_signature(recipient_ecdsa_public_key, recipient_ecdh_public_key,
                              recipient_ecdh_signature)
        s == sign_string(sender_ecdsa_private_key, ephemeral_ecdh_public_key)
        d == derive_shared_key(ephemeral_ecdh_private_key, recipient_ecdh_public_key)
        e == aes_encrypt(message, d.key)
        c1 == <<"verify_signature">>
        c2 == Append(c1, "sign_string")
        c3 == Append(c2, "derive_shared_key")
        c4 == Append(c3, "encrypt")
    IN
    IF v.exc # "none" THEN EncFail(v.exc, c1)
    ELSE IF s.exc # "none" THEN EncFail(EncryptRaised(s.exc), c2)
    ELSE IF d.exc # "none" THEN EncFail(EncryptRaised(d.exc), c3)
    ELSE IF e.exc # "none" THEN EncFail(EncryptRaised(e.exc), c4)
    ELSE EncFail(EncryptRaised("AttributeError"), c4)

\* encrypt_message taking a verification that could not complete for one
\* that passed.
encrypt_message_verify_skipped(message, sender_ecdsa_private_key, recipient_ecdsa_public_key, ephemeral_ecdh_private_key, ephemeral_ecdh_public_key, recipient_ecdh_public_key, recipient_ecdh_signature) ==
    LET v == verify_signature(recipient_ecdsa_public_key, recipient_ecdh_public_key,
                              recipient_ecdh_signature)
        s == sign_string(sender_ecdsa_private_key, ephemeral_ecdh_public_key)
        d == derive_shared_key(ephemeral_ecdh_private_key, recipient_ecdh_public_key)
        e == aes_encrypt(message, d.key)
        c1 == <<"verify_signature">>
        c2 == Append(c1, "sign_string")
        c3 == Append(c2, "derive_shared_key")
        c4 == Append(c3, "encrypt")
    IN
    IF v.exc = "none" /\ ~v.val THEN EncFail("SecurityError", c1)
    ELSE IF s.exc # "none" THEN EncFail(EncryptRaised(s.exc), c2)
    ELSE IF d.exc # "none" THEN EncFail(EncryptRaised(d.exc), c3)
    ELSE IF e.exc # "none" THEN EncFail(EncryptRaised(e.exc), c4)
    ELSE EncFail(EncryptRaised("AttributeError"), c4)

\* encrypt_message: [exc, ct, sig, calls]; calls are the engine calls made, in
\* order; ct and sig are what the call returns when exc = "none".
encrypt_message(message, sender_ecdsa_private_key, recipient_ecdsa_public_key, ephemeral_ecdh_private_key, ephemeral_ecdh_public_key, recipient_ecdh_public_key, recipient_ecdh_signature) ==
    LET v == verify_signature(recipient_ecdsa_public_key, recipient_ecdh_public_key,
                              recipient_ecdh_signature)
        s == sign_string(sender_ecdsa_private_key, ephemeral_ecdh_public_key)
        d == derive_shared_key(ephemeral_ecdh_private_key, recipient_ecdh_public_key)
        e == aes_encrypt(message, d.key)
        c1 == <<"verify_signature">>
        c2 == Append(c1, "sign_string")
        c3 == Append(c2, "derive_shared_key")
        c4 == Append(c3, "encrypt")
    IN
    IF v.exc # "none" THEN EncFail(v.exc, c1)
    ELSE IF ~v.val THEN EncFail("SecurityError", c1)
    ELSE IF s.exc # "none" THEN EncFail(EncryptRaised(s.exc), c2)
    ELSE IF d.exc # "none" THEN EncFail(EncryptRaised(d.exc), c3)
    ELSE IF e.exc # "none" THEN EncFail(EncryptRaised(e.exc), c4)
    \* the success log reads self._generate_message_id()
    ELSE IF "_generate_message_id" \notin EncryptionServiceAttrs
    THEN EncFail(EncryptRaised("AttributeError"), c4)
    ELSE [exc |-> "none", ct |-> e.ct, sig |-> s.sig, calls |-> c4]

DecFail(exc, calls) == [exc |-> exc, plain |-> NoPlain, calls |-> calls]

\* decrypt_message: [exc, plain, calls].
decrypt_message(encrypted_message, sender_ecdsa_public_key, recipient_ecdh_private_key, ephemeral_ecdh_public_key, ephemeral_signature) ==
    LET v == verify_signature(sender_ecdsa_public_key, ephemeral_ecdh_public_key,
                              ephemeral_signature)
        d == derive_shared_key(recipient_ecdh_private_key, ephemeral_ecdh_public_key)
        p == aes_decrypt(encrypted_message, d.key)
        c1 == <<"verify_signature">>
        c2 == Append(c1, "derive_shared_key")
        c3 == Append(c2, "decrypt")
    IN
    \* the opening debug log reads message and recipient_ecdh_public_key
    IF {"message", "recipient_ecdh_public_key"} \ DecryptMessageNames # {}
    THEN DecFail("NameError", <<>>)
    ELSE IF v.exc # "none" THEN DecFail(v.exc, c1)
    ELSE IF ~v.val THEN DecFail("SecurityError", c1)
    ELSE IF d.exc # "none" THEN DecFail(DecryptRaised(d.exc), c2)
    ELSE IF p.exc # "none" THEN DecFail(DecryptRaised(p.exc), c3)
    \* the success log reads self._get_key_fingerprint(...)
    ELSE IF "_get_key_fingerprint" \notin EncryptionServiceAttrs
    THEN DecFail(DecryptRaised("AttributeError"), c3)
    ELSE [exc |-> "none", plain |-> p.plain, calls |-> c3]

-----------------------------------------------------------------------------
(* MessageHTTPService *)

NoEnvelope == [message |-> NoCt, ephemeral_public_key |-> EmptyKey,
               ephemeral_signature |-> EmptySig]

\* The except clauses that close the try block of send_encrypted_message.
SendRaised(exc) ==
    IF IsInstance(exc, {"EncryptionError", "DecryptionError"}) THEN "MessageDeliveryError"
    ELSE IF IsInstance(exc, {"AuthenticationError"}) THEN exc
    ELSE IF IsInstance(exc, {"APIError"}) THEN "MessageDeliveryError"
    ELSE "InfrastructureError"

SendFail(exc, enc, calls) ==
    [exc |-> SendRaised(exc), enc |-> enc, calls |-> calls, envelope |-> NoEnvelope,
     clear_token |-> IsInstance(exc, {"AuthenticationError"})
                     /\ ~IsInstance(exc, {"EncryptionError", "DecryptionError"})]

\* send_encrypted_message handing the envelope to send_message whatever
\* encrypt_message raised.
send_encrypted_message_despite_error(message, recipient_ecdsa_public_key, sender_ecdsa_private_key, sender_ecdh_private_key, ephemeral_ecdh_public_key, keys, sendExc) ==
    LET r == encrypt_message(message, sender_ecdsa_private_key, recipient_ecdsa_public_key,
                             sender_ecdh_private_key, ephemeral_ecdh_public_key,
                             keys.ecdh_public_key, keys.ecdh_signature)
        c1 == <<"get_public_keys">>
        c2 == Append(c1, "encrypt_message")
        c3 == Append(c2, "send_message")
    IN
    IF keys.exc # "none" THEN SendFail(keys.exc, "-", c1)
    ELSE IF sendExc # "none" THEN SendFail(sendExc, r.exc, c3)
    ELSE [exc |-> "none", enc |-> r.exc, calls |-> c3,
          envelope |-> [message |-> r.ct,
                        ephemeral_public_key |-> ephemeral_ecdh_public_key,
                        ephemeral_signature |-> r.sig],
          clear_token |-> FALSE]

\* send_encrypted_message that calls encrypt_message once more when it
\* raised.
send_encrypted_message_retrying(message, recipient_ecdsa_public_key, sender_ecdsa_private_key, sender_ecdh_private_key, ephemeral_ecdh_public_key, keys, sendExc) ==
    LET r == encrypt_message(message, sender_ecdsa_private_key, recipient_ecdsa_public_key,
                             sender_ecdh_private_key, ephemeral_ecdh_public_key,
                             keys.ecdh_public_key, keys.ecdh_signature)
        c1 == <<"get_public_keys">>
        c2 == Append(c1, "encrypt_message")
        c3 == Append(c2, "send_message")
    IN
    IF keys.exc # "none" THEN SendFail(keys.exc, "-", c1)
    ELSE IF r.exc # "none" THEN SendFail(r.exc, r.exc, Append(c2, "encrypt_message"))
    ELSE IF sendExc # "none" THEN SendFail(sendExc, "none", c3)
    ELSE [exc |-> "none", enc |-> "none", calls |-> c3,
          envelope |-> [message |-> r.ct,
                        ephemeral_public_key |-> ephemeral_ecdh_public_key,
                        ephemeral_signature |-> r.sig],
          clear_token |-> FALSE]

\* send_encrypted_message: keys is the directory's answer [exc, ecdh_public_key,
\* ecdh_signature], sendExc the outcome of message_dao.send_message.
\* [exc, enc, calls, envelope, clear_token]: enc is the encrypt_message exception,
\* calls the collaborator calls made, envelope what was handed to send_message.
send_encrypted_message(message, recipient_ecdsa_public_key, sender_ecdsa_private_key, sender_ecdh_private_key, ephemeral_ecdh_public_key, keys, sendExc) ==
    LET r == encrypt_message(message, sender_ecdsa_private_key, recipient_ecdsa_public_key,
                             sender_ecdh_private_key, ephemeral_ecdh_public_key,
                             keys.ecdh_public_key, keys.ecdh_signature)
        c1 == <<"get_public_keys">>
        c2 == Append(c1, "encrypt_message")
        c3 == Append(c2, "send_message")
    IN
    IF keys.exc # "none" THEN SendFail(keys.exc, "-", c1)
    ELSE IF r.exc # "none" THEN SendFail(r.exc, r.exc, c2)
    ELSE IF sendExc # "none" THEN SendFail(sendExc, "none", c3)
    ELSE [exc |-> "none", enc |-> "none", calls |-> c3,
          envelope |-> [message |-> r.ct,
                        ephemeral_public_key |-> ephemeral_ecdh_public_key,
                        ephemeral_signature |-> r.sig],
          clear_token |-> FALSE]

\* The entry built for one message of the pull path.
PullEntry(m, ecdsa_public_key, recipient_ecdh_private_key) ==
    LET r == decrypt_message(m.message, ecdsa_public_key, recipient_ecdh_private_key,
                             m.ephemeral_public_key, m.ephemeral_signature)
    IN
    [id |-> m.id,
     decrypted_content |-> r.plain,
     decryption_status |-> IF r.exc = "none" THEN "success"
                           ELSE IF IsInstance(r.exc, {"DecryptionError"}) THEN "failed"
                           ELSE "error"]

\* get_undelivered_messages acknowledging every message but returning only
\* those whose processing raised nothing unexpected
get_undelivered_messages_dropping_errors(ecdsa_public_key, recipient_ecdh_private_key, resp, ackExc) ==
    LET entries == [i \in 1..Len(resp.messages) |->
                        PullEntry(resp.messages[i], ecdsa_public_key,
                                  recipient_ecdh_private_key)]
        ids == {resp.messages[i].id : i \in 1..Len(resp.messages)}
    IN
    IF resp.exc # "none"
    THEN [out |-> <<>>, acked |-> {},
          clear_token |-> IsInstance(resp.exc, {"AuthenticationError"})]
    ELSE IF resp.messages = <<>> THEN [out |-> <<>>, acked |-> {}, clear_token |-> FALSE]
    ELSE IF ackExc # "none"
    THEN [out |-> <<>>, acked |-> {},
          clear_token |-> IsInstance(ackExc, {"AuthenticationError"})]
    ELSE [out |-> SelectSeq(entries, LAMBDA e : e.decryption_status # "error"),
          acked |-> ids, clear_token |-> FALSE]

\* get_undelivered_messages: resp is the server's answer [exc, messages], ackExc
\* the outcome of message_dao.ack_messages.
\* [out, acked, clear_token]: the list returned and the ids acknowledged.
get_undelivered_messages(ecdsa_public_key, recipient_ecdh_private_key, resp, ackExc) ==
    LET entries == [i \in 1..Len(resp.messages) |->
                        PullEntry(resp.messages[i], ecdsa_public_key,
                                  recipient_ecdh_private_key)]
        ids == {resp.messages[i].id : i \in 1..Len(resp.messages)}
    IN
    IF resp.exc # "none"
    THEN [out |-> <<>>, acked |-> {},
          clear_token |-> IsInstance(resp.exc, {"AuthenticationError"})]
    ELSE IF resp.messages = <<>> THEN [out |-> <<>>, acked |-> {}, clear_token |-> FALSE]
    ELSE IF ackExc # "none"
    THEN [out |-> <<>>, acked |-> {},
          clear_token |-> IsInstance(ackExc, {"AuthenticationError"})]
    ELSE [out |-> entries, acked |-> ids, clear_token |-> FALSE]

\* _process_incoming_message: keys is the directory's answer [exc,
\* ecdsa_public_key], ackExc the outcome of ack_messages.
\* [callback, acked, dec]: the entries handed to the callback, the ids
\* acknowledged, and the exception decrypt_message raised.
_process_incoming_message(m, user_private_key, keys, ackExc) ==
    LET r == decrypt_message(m.message, keys.ecdsa_public_key, user_private_key,
                             m.ephemeral_public_key, m.ephemeral_signature)
    IN
    IF keys.exc # "none" THEN [callback |-> {}, acked |-> {}, dec |-> "-"]
    ELSE IF r.exc = "none"
    THEN [callback |-> {[id |-> m.id, decrypted_content |-> r.plain,
                         decryption_status |-> "success"]},
          acked |-> IF ackExc = "none" THEN {m.id} ELSE {},
          dec |-> r.exc]
    ELSE IF IsInstance(r.exc, {"DecryptionError"})
    THEN [callback |-> {[id |-> m.id, decrypted_content |-> NoPlain,
                         decryption_status |-> "failed"]},
          acked |-> {}, dec |-> r.exc]
    ELSE [callback |-> {}, acked |-> {}, dec |-> r.exc]

-----------------------------------------------------------------------------
(* WebSocketDAO and the listener of MessageHTTPService.  One record w holds  *)
(* the fields of both objects: of the service token, user_private_key,       *)
(* message_callback (0 is None), is_listening, and task, the asyncio task    *)
(* in _listening_task with the point it is suspended at (st is "none" for    *)
(* None); of the DAO websocket ("none" for None, "open", or "closed" once    *)
(* the server closed it), is_connected, should_reconnect, dao_token and      *)
(* message_handler.  inbox are the frames the server pushed on the socket    *)
(* that were not read yet; pushed, handled and called_back count the frames  *)
(* pushed, the calls of the message handler and the calls of the callback;   *)
(* orphans counts listening tasks replaced in _listening_task while running. *)

NoTask == [st |-> "none", pc |-> "-"]
InitWs ==
    [token |-> 0, user_private_key |-> 0, message_callback |-> 0,
     is_listening |-> FALSE, task |-> NoTask,
     websocket |-> "none", is_connected |-> FALSE, should_reconnect |-> TRUE,
     dao_token |-> 0, message_handler |-> FALSE,
     inbox |-> <<>>, pushed |-> 0, handled |-> 0, called_back |-> 0, orphans |-> 0]

\* WebSocketDAO.connect; ok is whether websockets.connect succeeded: [ret, w]
connect(w, token, ok) ==
    IF ok
    THEN [ret |-> TRUE,
          w |-> [w EXCEPT !.dao_token = token, !.websocket = "open",
                          !.is_connected = TRUE, !.inbox = <<>>]]
    ELSE [ret |-> FALSE, w |-> [w EXCEPT !.dao_token = token]]

\* WebSocketDAO.disconnect
disconnect(w) ==
    [w EXCEPT !.should_reconnect = FALSE, !.is_connected = FALSE,
              !.websocket = "none", !.inbox = <<>>]

\* start_websocket_listener without the test of _is_listening
start_websocket_listener_unguarded(w, token, user_private_key, message_callback, ok) ==
    LET set == [w EXCEPT !.token = token, !.user_private_key = user_private_key,
                         !.message_callback = message_callback]
        c == connect(set, token, ok)
    IN
    IF ~c.ret THEN [ret |-> FALSE, w |-> c.w]
    ELSE [ret |-> TRUE,
          w |-> [c.w EXCEPT !.is_listening = TRUE,
                            !.task = [st |-> "pending", pc |-> "start"],
                            !.orphans = IF w.task.st = "pending" THEN @ + 1 ELSE @]]

\* start_websocket_listener: [ret, w]
start_websocket_listener(w, token, user_private_key, message_callback, ok) ==
    LET set == [w EXCEPT !.token = token, !.user_private_key = user_private_key,
                         !.message_callback = message_callback]
        c == connect(set, token, ok)
    IN
    IF w.is_listening THEN [ret |-> FALSE, w |-> w]
    ELSE IF ~c.ret THEN [ret |-> FALSE, w |-> c.w]
    ELSE [ret |-> TRUE,
          w |-> [c.w EXCEPT !.is_listening = TRUE,
                            !.task = [st |-> "pending", pc |-> "start"],
                            !.orphans = IF w.task.st = "pending" THEN @ + 1 ELSE @]]

\* stop_websocket_listener that leaves the listening task alone
stop_websocket_listener_not_cancelling(w) ==
    IF ~w.is_listening THEN w
    ELSE [disconnect([w EXCEPT !.is_listening = FALSE]) EXCEPT !.message_callback = 0]

\* stop_websocket_listener: a task that is not done is cancelled, awaited and
\* dropped; a task that is done stays in _listening_task
stop_websocket_listener(w) ==
    IF ~w.is_listening THEN w
    ELSE LET cancelled == [w EXCEPT !.is_listening = FALSE,
                                    !.task = IF w.task.st = "pending" THEN NoTask ELSE @]
         IN [disconnect(cancelled) EXCEPT !.message_callback = 0]

get_connection_status(w) ==
    [is_connected |-> w.is_connected, is_listening |-> w.is_listening,
     has_token |-> w.token # 0, has_callback |-> w.message_callback # 0]

\* MessageHTTPService._handle_websocket_message for a frame of the given
\* type: how many times it calls the message callback.  A "message" frame is
\* an honest message of alice under the key b1.
CallbackCalls(w, type) ==
    IF type = "message"
    THEN LET r == _process_incoming_message(
                     [id |-> 1, message |-> Ct([ks |-> {"a1", "b1"}], "hello bob"),
                      ephemeral_public_key |-> Key("xpub", "a1"),
                      ephemeral_signature |-> Sig("alice", Key("xpub", "a1"))],
                     Key("xpriv", "b1"),
                     [exc |-> "none", ecdsa_public_key |-> Key("ecpub", "alice")], "none")
         IN IF r.callback # {} /\ w.message_callback # 0 THEN 1 ELSE 0
    ELSE IF type = "user_status" /\ w.message_callback # 0 THEN 1
    ELSE 0

\* The listening task, _websocket_listener_loop running listen_for_messages,
\* from one await to the next: pc is the await it is suspended at, "start"
\* before its first run, "connect" in websockets.connect, "sleep" in
\* asyncio.sleep, "recv" waiting for the next frame.  ListenEnabled(w) tells
\* whether the task can run; a task waiting for a frame on an open socket
\* with nothing received cannot.
ListenEnabled(w) ==
    /\ w.task.st = "pending"
    /\ w.task.pc = "recv" => (w.websocket # "open" \/ w.inbox # <<>>)

\* while self._should_reconnect, up to the next await
listen_loop(w) ==
    IF ~w.should_reconnect THEN [w EXCEPT !.task = [st |-> "done", pc |-> "-"]]
    ELSE IF ~w.is_connected /\ w.dao_token # 0 THEN [w EXCEPT !.task.pc = "connect"]
    ELSE [w EXCEPT !.task.pc = "recv"]

\* ok is whether the connect the task waits for succeeds
listen_for_messages(w, ok) ==
    IF w.task.pc = "start" THEN listen_loop([w EXCEPT !.message_handler = TRUE])
    ELSE IF w.task.pc = "connect"
    THEN LET c == connect(w, w.dao_token, ok) IN
         IF c.ret THEN [c.w EXCEPT !.task.pc = "recv"]
         ELSE [c.w EXCEPT !.task.pc = "sleep"]
    ELSE IF w.task.pc = "sleep" THEN listen_loop(w)
    \* async for message in self._websocket: frames received before the
    \* connection closed are still handed out
    ELSE IF w.websocket # "none" /\ w.inbox # <<>>
    THEN [w EXCEPT !.inbox = Tail(@),
                   !.handled = @ + 1,
                   !.called_back = @ + CallbackCalls(w, Head(w.inbox))]
    \* ConnectionClosed, or TypeError for None
    ELSE listen_loop([w EXCEPT !.is_connected = FALSE])

-----------------------------------------------------------------------------
(* CommonHTTPClient.  What one HTTP exchange does is an outcome [kind, code]: *)
(* kind "status" with the status code of the response, "RequestError" for    *)
(* httpx.RequestError, "Exception" for anything else, a response body that   *)
(* is not JSON included.                                                     *)

Status(code) == [kind |-> "status", code |-> code]

\* APIError.is_client_error
is_client_error(status_code) == status_code # 0 /\ 400 <= status_code /\ status_code < 500

\* _handle_http_error: the class raised
_handle_http_error(status_code) ==
    IF status_code = 401 THEN "AuthenticationError"
    ELSE IF status_code = 403 THEN "AuthenticationError"
    ELSE "APIError"

\* _request: [exc, status_code]; status_code is that of an APIError, 0 for None
_request(o) ==
    IF o.kind = "status"
    THEN IF 200 <= o.code /\ o.code < 300 THEN [exc |-> "none", status_code |-> 0]
         ELSE [exc |-> _handle_http_error(o.code),
               status_code |-> IF _handle_http_error(o.code) = "APIError"
                               THEN o.code ELSE 0]
    ELSE IF o.kind = "RequestError" THEN [exc |-> "NetworkError", status_code |-> 0]
    ELSE [exc |-> "InfrastructureError", status_code |-> 0]

RECURSIVE request_attempt(_, _, _)
\* The body of the loop of _request_with_retry for attempt (counted from 1),
\* outs[attempt] being what that exchange does.
\* [exc, status_code, attempts, slept]: the class raised or "none" for a
\* returned response, the attempts made, and how often the call slept.
request_attempt(outs, max_retries, attempt) ==
    LET r == _request(outs[attempt])
        raised(c) == [exc |-> c, status_code |-> r.status_code,
                      attempts |-> attempt, slept |-> attempt - 1]
    IN
    IF r.exc = "none" THEN raised("none")
    ELSE IF IsInstance(r.exc, {"APIError", "NetworkError", "InfrastructureError"})
    THEN IF IsInstance(r.exc, {"APIError"}) /\ is_client_error(r.status_code)
         THEN raised(r.exc)
         ELSE IF IsInstance(r.exc, {"AuthenticationError"}) THEN raised(r.exc)
         ELSE IF IsInstance(r.exc, {"NonRetryableError"}) THEN raised(r.exc)
         ELSE IF attempt < max_retries
         THEN request_attempt(outs, max_retries, attempt + 1)
         ELSE raised(r.exc)
    \* except Exception
    ELSE [raised("InfrastructureError") EXCEPT !.status_code = 0]

\* _request_with_retry
_request_with_retry(outs, max_retries) == request_attempt(outs, max_retries, 1)

-----------------------------------------------------------------------------
(* ContactHTTPService, LoadingManager.synchronize_contacts, MessengerManager *)
(* The local contact table is a collaborator: update_contact and            *)
(* add_contact with a record write the record.                              *)

\* EncryptionService.verify_signature: [exc, val].
service_verify_signature(public_key_pem, string, signature) ==
    LET r == verify_signature(public_key_pem, string, signature) IN
    IF r.exc = "none" THEN r
    ELSE IF IsInstance(r.exc, {"InvalidKeyError", "InvalidCiphertextError",
                               "CryptographyError"})
         THEN r
    ELSE [exc |-> "InfrastructureError", val |-> FALSE]

\* ContactHTTPService._validate_signature: ecdsa_dict is the signing key the
\* local record holds for the user (EmptyKey: none).
_validate_signature(user_data, ecdsa_dict) ==
    LET ecdsa_key == IF ecdsa_dict # EmptyKey THEN ecdsa_dict
                     ELSE user_data.ecdsa_public_key
        r == service_verify_signature(ecdsa_key, user_data.ecdh_public_key,
                                      user_data.ecdh_signature)
    IN
    ecdsa_key # EmptyKey /\ r.exc = "none" /\ r.val

\* ContactHTTPService.get_contacts: resp is the server's answer [exc,
\* users_data]; the records of the users whose key binding verifies.
get_contacts(resp, ecdsa_dict) ==
    IF resp.exc # "none" THEN <<>>
    ELSE SelectSeq(resp.users_data, LAMBDA ud : _validate_signature(ud, ecdsa_dict))

\* LoadingManager.synchronize_contacts: [calls, written]; written is the
\* agreement key stored in the contact's record (EmptyKey: none stored).
synchronize_contacts(resp, ecdsa_dict) ==
    LET server_contacts == get_contacts(resp, ecdsa_dict)
        c1 == <<"get_contacts">>
        c2 == IF resp.exc = "none" /\ resp.users_data # <<>>
              THEN Append(c1, "verify_signature") ELSE c1
    IN
    IF server_contacts = <<>> THEN [calls |-> c2, written |-> EmptyKey]
    ELSE [calls |-> Append(c2, "update_contact"),
          written |-> server_contacts[Len(server_contacts)].ecdh_public_key]

\* MessengerManager._handle_user_status: keys is the directory's answer.
\* [calls, written]
_handle_user_status(keys) ==
    IF keys.exc # "none" THEN [calls |-> <<"get_public_keys">>, written |-> EmptyKey]
    ELSE [calls |-> <<"get_public_keys", "update_contact">>,
          written |-> keys.ecdh_public_key]

\* The names MessengerManager's module binds, of those its handlers read.
MessengerManagerNames ==
    {"ContactService", "MessageService", "Abstract256Cipher", "MessageRequestDTO",
     "ContactRequestDTO"}

\* MessengerManager._handle_websocket_message, the message callback.
\* [calls, written]
_handle_websocket_message(message_data) ==
    IF message_data.decryption_status # "success"
    THEN [calls |-> <<>>, written |-> EmptyKey]
    \* request_container.get(AbstractAES256Cipher)
    ELSE IF "AbstractAES256Cipher" \notin MessengerManagerNames
    THEN [calls |-> <<>>, written |-> EmptyKey]
    ELSE [calls |-> <<"encrypt", "add_message", "update_contact">>,
          written |-> message_data.ephemeral_public_key]

-----------------------------------------------------------------------------
(* AppState, EncryptedKeyStorage, AuthHTTPService, AuthManager, LoadingManager *)
(* Agreement key pairs are numbered 1, 2, ... in the order they are         *)
(* generated; 0 stands for None.                                            *)

\* AppState(): the dataclass defaults.
InitState ==
    [username |-> FALSE, password |-> FALSE, master_key |-> FALSE,
     ecdsa_private_key |-> FALSE, ecdh_public_key |-> 0, ecdh_private_key |-> 0,
     token |-> FALSE, is_authenticated |-> FALSE]

\* AppState.update_from_login
update_from_login(ecdh_public_key, ecdh_private_key) ==
    [username |-> TRUE, password |-> TRUE, master_key |-> TRUE,
     ecdsa_private_key |-> TRUE, ecdh_public_key |-> ecdh_public_key,
     ecdh_private_key |-> ecdh_private_key,
     token |-> TRUE, is_authenticated |-> TRUE]

\* AppState.update_ecdh_keys
update_ecdh_keys(st, ecdh_public_key, ecdh_private_key) ==
    [st EXCEPT !.ecdh_public_key = ecdh_public_key,
               !.ecdh_private_key = ecdh_private_key]

\* AppState.clear: password and ecdsa_public_key are not among the fields reset.
clear(st) ==
    [st EXCEPT !.token = FALSE, !.username = FALSE, !.master_key = FALSE,
               !.ecdsa_private_key = FALSE, !.ecdh_public_key = 0,
               !.ecdh_private_key = 0, !.is_authenticated = FALSE]

\* The methods an EncryptedKeyStorage object has.
EncryptedKeyStorageAttrs ==
    {"is_master_key_registered", "register_master_key", "get_master_key",
     "store_ecdh_private_key", "store_ecdsa_private_key", "get_ecdh_private_key",
     "get_ecdsa_private_key", "clear_ecdh_key", "clear_storage"}

InitVault == [master |-> FALSE, ecdsa |-> FALSE, ecdh |-> 0]

\* AuthHTTPService.update_ecdh_key for a fresh key pair k: fail names the step
\* that raises ("none": no step does; "publish_lost": the server applied the
\* update and the answer was lost).
\* [ok, trace, directory, announced]
update_ecdh_key(st, k, fail, dir, ann) ==
    LET t0 == <<>>
        t1 == Append(t0, "generate")
        t2 == Append(t1, "sign")
        t3 == Append(t2, "publish")
        bad(t) == [ok |-> FALSE, trace |-> t, directory |-> dir, announced |-> ann]
    IN
    IF ~st.token THEN bad(t0)                      \* _validate_session
    ELSE IF fail = "generate" THEN bad(t1)
    ELSE IF fail = "sign" \/ ~st.ecdsa_private_key THEN bad(t2)
    ELSE IF fail = "publish" THEN bad(t3)
    ELSE IF fail = "publish_lost"
    THEN [ok |-> FALSE, trace |-> t3, directory |-> k, announced |-> ann \cup {k}]
    ELSE [ok |-> TRUE, trace |-> t3, directory |-> k, announced |-> ann \cup {k}]

\* rotate_keys whose in-memory swap does not wait for the directory.
rotate_keys_swap_first(st, vlt, k, fail, storeOk, dir, ann) ==
    LET u == update_ecdh_key(st, k, fail, dir, ann) IN
    [ok |-> FALSE, trace |-> Append(u.trace, "swap"),
     state |-> update_ecdh_keys(st, k, k), vault |-> vlt,
     directory |-> u.directory, announced |-> u.announced]

\* LoadingManager.rotate_keys for a fresh key pair k: storeOk is whether the
\* keyring accepts the store.
\* [ok, trace, state, vault, directory, announced]
rotate_keys(st, vlt, k, fail, storeOk, dir, ann) ==
    LET u == update_ecdh_key(st, k, fail, dir, ann)
        t4 == Append(u.trace, "clear")
        t5 == Append(t4, "store")
        t6 == Append(t5, "swap")
        cleared == [vlt EXCEPT !.ecdh = 0]
        stored == [vlt EXCEPT !.ecdh = k]
        out(ok, t, s, v) == [ok |-> ok, trace |-> t, state |-> s, vault |-> v,
                             directory |-> u.directory, announced |-> u.announced]
    IN
    IF ~u.ok THEN out(FALSE, u.trace, st, vlt)
    \* key_storage.clear_ecdh_private_key(...)
    ELSE IF "clear_ecdh_private_key" \notin EncryptedKeyStorageAttrs
    THEN out(FALSE, u.trace, st, vlt)
    ELSE IF ~storeOk THEN out(FALSE, t5, st, cleared)
    ELSE out(TRUE, t6, update_ecdh_keys(st, k, k), stored)

\* AuthHTTPService.register for a fresh key pair k.
\* [ok, directory, announced]
register(k, fail, dir, ann) ==
    IF fail = "generate" THEN [ok |-> FALSE, directory |-> dir, announced |-> ann]
    \* register_user: the server refuses a taken username (409) or is out of reach
    ELSE IF fail = "register" \/ dir # 0
    THEN [ok |-> FALSE, directory |-> dir, announced |-> ann]
    ELSE [ok |-> TRUE, directory |-> k, announced |-> ann \cup {k}]

\* AuthManager._register_new_user for a fresh key pair k: fail names the step
\* that fails.  [ok, state, vault, directory, announced, local_user]
_register_new_user(st, vlt, k, fail, dir, ann) ==
    LET r == register(k, fail, dir, ann)
        v1 == [vlt EXCEPT !.master = TRUE]
        v2 == [v1 EXCEPT !.ecdsa = TRUE]
        v3 == [v2 EXCEPT !.ecdh = k]
        out(ok, s, v, lu) == [ok |-> ok, state |-> s, vault |-> v,
                              directory |-> r.directory, announced |-> r.announced,
                              local_user |-> lu]
    IN
    IF ~r.ok THEN out(FALSE, st, vlt, FALSE)
    ELSE IF vlt.master \/ fail = "master" THEN out(FALSE, st, vlt, FALSE)
    ELSE IF fail = "store_ecdsa" THEN out(FALSE, st, v1, FALSE)
    ELSE IF fail = "store_ecdh" THEN out(FALSE, st, v2, FALSE)
    ELSE IF fail \in {"login", "user_info", "add_user"} THEN out(FALSE, st, v3, FALSE)
    ELSE out(TRUE, update_from_login(0, k), v3, TRUE)

\* AuthManager._login_existing_user.  [ok, state]
_login_existing_user(st, vlt, fail) ==
    IF fail = "password" THEN [ok |-> FALSE, state |-> st]
    ELSE IF ~vlt.master \/ ~vlt.ecdsa THEN [ok |-> FALSE, state |-> st]
    ELSE IF fail \in {"login", "user_info"} THEN [ok |-> FALSE, state |-> st]
    ELSE [ok |-> TRUE, state |-> update_from_login(0, vlt.ecdh)]

-----------------------------------------------------------------------------
(* The loading screen.  loading holds the screen's run of its steps: pc is   *)
(* "off" before the screen is prepared, "running" while the task of          *)
(* execute_loading_process is in its loop, "error" after show_error,         *)
(* "messenger" after show_screen("messenger"); current_step counts from 1;   *)
(* executing tells that the step was announced and its method is due;        *)
(* started and completed_steps list the steps begun and completed; fetched   *)
(* tells whether get_undelivered_messages was called and fetched_with the    *)
(* agreement private key it was given; rotating_from is the agreement        *)
(* private key of the session when rotate_keys began (0: none).              *)

LoadingSteps ==
    <<"SYNCHRONIZING CONTACTS DATABASE", "LOADING MESSAGE HISTORY",
      "ROTATING ENCRYPTION KEYS">>

InitLoading ==
    [pc |-> "off", current_step |-> 1, executing |-> FALSE,
     started |-> <<>>, completed_steps |-> <<>>,
     fetched |-> FALSE, fetched_with |-> 0, rotating_from |-> 0]

\* prepare_screen
prepare_screen(l) == [InitLoading EXCEPT !.pc = "running"]

\* The names the module of LoadingManager binds, of those its methods read.
LoadingManagerNames ==
    {"AuthHTTPService", "ContactHTTPService", "MessageHTTPService",
     "LocalUserService", "ContactService", "MessageService", "Abstract256Cipher",
     "MessageRequestDTO", "EncryptedKeyStorage"}

\* LoadingManager.sync_message_history: dbOk is whether the local database
\* takes the messages.  [ok, fetched, fetched_with]
sync_message_history(st, dbOk) ==
    \* request_container.get(AbstractAES256Cipher)
    IF "AbstractAES256Cipher" \notin LoadingManagerNames
    THEN [ok |-> FALSE, fetched |-> FALSE, fetched_with |-> 0]
    ELSE [ok |-> dbOk, fetched |-> TRUE, fetched_with |-> st.ecdh_private_key]

\* The body of the loop of execute_loading_process that goes on to the next
\* step when one has failed
execute_loading_step_continuing(l, success) ==
    LET name == LoadingSteps[l.current_step]
        begun == [l EXCEPT !.executing = FALSE]
        next == IF l.current_step = Len(LoadingSteps)
                THEN [begun EXCEPT !.pc = "messenger"]
                ELSE [begun EXCEPT !.current_step = @ + 1]
    IN
    IF success THEN [next EXCEPT !.completed_steps = Append(@, name)]
    ELSE next

\* The loop of execute_loading_process up to add_step_status(step_name,
\* "executing") for the step current_step
begin_loading_step(l) ==
    [l EXCEPT !.executing = TRUE, !.started = Append(@, LoadingSteps[l.current_step])]

\* The rest of the body of the loop for the step current_step, success being
\* what the step's method answered (an exception of the method counts as
\* failure); after the last step the messenger is shown.
execute_loading_step(l, success) ==
    LET name == LoadingSteps[l.current_step]
        begun == [l EXCEPT !.executing = FALSE]
        done == [begun EXCEPT !.completed_steps = Append(@, name)]
    IN
    IF ~success THEN [begun EXCEPT !.pc = "error"]
    ELSE IF l.current_step = Len(LoadingSteps) THEN [done EXCEPT !.pc = "messenger"]
    ELSE [done EXCEPT !.current_step = @ + 1]

-----------------------------------------------------------------------------
(* The values the operations are called with.  alice is the local user of   *)
(* the sending side, bob the local user of the receiving side; b1 is bob's  *)
(* agreement key before a rotation and b2 the one after; mallory is a third *)
(* party with a signing pair and an agreement pair m1 of her own.           *)

Plaintexts == {"hello bob", "bye"}

SigningPublicKeys ==
    {Key("ecpub", "alice"), Key("ecpub", "bob"), EmptyKey, GarbageKey, Key("xpub", "b1")}
SigningPrivateKeys == {Key("ecpriv", "alice"), GarbageKey}
AgreementPublicKeys ==
    {Key("xpub", "a1"), Key("xpub", "b1"), Key("xpub", "b2"), Key("xpub", "m1"), EmptyKey}
AgreementPrivateKeys == {Key("xpriv", "a1"), Key("xpriv", "b1"), Key("xpriv", "b2"), GarbageKey}
Signatures ==
    {Sig("alice", Key("xpub", "a1")), Sig("bob", Key("xpub", "b1")),
     Sig("bob", Key("xpub", "b2")), Sig("mallory", Key("xpub", "m1")),
     EmptySig, BadB64Sig, NotDerSig}
Ciphertexts ==
    {Ct([ks |-> {"a1", "b1"}], "hello bob"), Ct([ks |-> {"a1", "b2"}], "hello bob"),
     Ct([ks |-> {"m1", "b1"}], "bye"), NoCt}

ApiOutcomes == {"none", "APIError", "AuthenticationError"}

\* What /public-keys/{user_id} answers for bob, honestly or not.
DirectoryAnswers ==
    {[exc |-> e, ecdh_public_key |-> EmptyKey, ecdh_signature |-> EmptySig,
      ecdsa_public_key |-> EmptyKey] : e \in ApiOutcomes \ {"none"}}
    \cup
    {[exc |-> "none", ecdh_public_key |-> k, ecdh_signature |-> g,
      ecdsa_public_key |-> Key("ecpub", "alice")] :
        k \in {Key("xpub", "b1"), Key("xpub", "b2"), Key("xpub", "m1")},
        g \in {Sig("bob", Key("xpub", "b1")), Sig("bob", Key("xpub", "b2")),
               Sig("mallory", Key("xpub", "m1")), NotDerSig}}

\* The messages the server delivers to bob.
MsgIds == 1..MaxBatch
Inbound ==
    {[id |-> i, message |-> c, ephemeral_public_key |-> k, ephemeral_signature |-> g] :
        i \in MsgIds,
        c \in {Ct([ks |-> {"a1", "b1"}], "hello bob")},
        k \in {Key("xpub", "a1"), Key("xpub", "m1")},
        g \in {Sig("alice", Key("xpub", "a1")), Sig("mallory", Key("xpub", "m1"))}}

\* The batches /get-undelivered-messages answers with: distinct ids.
Batches ==
    {b \in UNION {[1..n -> Inbound] : n \in 0..MaxBatch} :
        \A i, j \in 1..Len(b) : i # j => b[i].id # b[j].id}

-----------------------------------------------------------------------------
(* Actions of the messaging services *)

VerifySignature ==
    /\ call.op = "idle"
    /\ \E k \in SigningPublicKeys, m \in AgreementPublicKeys, g \in Signatures :
        /\ call' = [op |-> "verify_signature",
                    in |-> [public_key_pem |-> k, message |-> m, signature |-> g],
                    res |-> verify_signature(k, m, g)]
        /\ UNCHANGED <<sent, delivered, acked, current_token>>
        /\ UNCHANGED nonEncVars

EncryptMessage ==
    /\ call.op = "idle"
    /\ \E message \in Plaintexts,
       sender_ecdsa_private_key \in SigningPrivateKeys,
       recipient_ecdsa_public_key \in SigningPublicKeys \ {Key("ecpub", "alice")},
       ephemeral_ecdh_private_key \in {Key("xpriv", "a1"), GarbageKey},
       ephemeral_ecdh_public_key \in {Key("xpub", "a1"), EmptyKey},
       recipient_ecdh_public_key \in AgreementPublicKeys \ {Key("xpub", "a1")},
       recipient_ecdh_signature \in Signatures \ {Sig("alice", Key("xpub", "a1"))} :
        /\ call' = [op |-> "encrypt_message",
                    in |-> [message |-> message,
                            sender_ecdsa_private_key |-> sender_ecdsa_private_key,
                            recipient_ecdsa_public_key |-> recipient_ecdsa_public_key,
                            ephemeral_ecdh_private_key |-> ephemeral_ecdh_private_key,
                            ephemeral_ecdh_public_key |-> ephemeral_ecdh_public_key,
                            recipient_ecdh_public_key |-> recipient_ecdh_public_key,
                            recipient_ecdh_signature |-> recipient_ecdh_signature],
                    res |-> encrypt_message(message, sender_ecdsa_private_key,
                                recipient_ecdsa_public_key, ephemeral_ecdh_private_key,
                                ephemeral_ecdh_public_key, recipient_ecdh_public_key,
                                recipient_ecdh_signature)]
        /\ UNCHANGED <<sent, delivered, acked, current_token>>
        /\ UNCHANGED nonEncVars

DecryptMessage ==
    /\ call.op = "idle"
    /\ \E encrypted_message \in Ciphertexts,
       sender_ecdsa_public_key \in {Key("ecpub", "alice"), EmptyKey, GarbageKey},
       recipient_ecdh_private_key \in {Key("xpriv", "b1"), Key("xpriv", "b2"), GarbageKey},
       ephemeral_ecdh_public_key \in {Key("xpub", "a1"), Key("xpub", "m1"), EmptyKey},
       ephemeral_signature \in {Sig("alice", Key("xpub", "a1")),
                                Sig("mallory", Key("xpub", "m1")),
                                EmptySig, BadB64Sig, NotDerSig} :
        /\ call' = [op |-> "decrypt_message",
                    in |-> [encrypted_message |-> encrypted_message,
                            sender_ecdsa_public_key |-> sender_ecdsa_public_key,
                            recipient_ecdh_private_key |-> recipient_ecdh_private_key,
                            ephemeral_ecdh_public_key |-> ephemeral_ecdh_public_key,
                            ephemeral_signature |-> ephemeral_signature],
                    res |-> decrypt_message(encrypted_message, sender_ecdsa_public_key,
                                recipient_ecdh_private_key, ephemeral_ecdh_public_key,
                                ephemeral_signature)]
        /\ UNCHANGED <<sent, delivered, acked, current_token>>
        /\ UNCHANGED nonEncVars

\* The caller has taken the result of the last call.
Return ==
    /\ call.op # "idle"
    /\ call' = [op |-> "idle"]
    /\ UNCHANGED <<sent, delivered, acked, current_token>>
    /\ UNCHANGED nonEncVars

SetToken ==
    /\ call.op = "idle"
    /\ ~current_token
    /\ current_token' = TRUE
    /\ UNCHANGED call
    /\ UNCHANGED <<sent, delivered, acked>>
    /\ UNCHANGED nonEncVars

SendEncryptedMessage ==
    /\ call.op = "idle"
    /\ \E message \in Plaintexts,
       recipient_ecdsa_public_key \in {Key("ecpub", "bob"), EmptyKey},
       sender_ecdsa_private_key \in SigningPrivateKeys,
       keys \in DirectoryAnswers,
       sendExc \in ApiOutcomes :
        LET r == send_encrypted_message(message, recipient_ecdsa_public_key,
                     sender_ecdsa_private_key, Key("xpriv", "a1"), Key("xpub", "a1"),
                     keys, sendExc)
        IN
        /\ call' = [op |-> "send_encrypted_message",
                    in |-> [message |-> message,
                            recipient_ecdsa_public_key |-> recipient_ecdsa_public_key,
                            sender_ecdsa_private_key |-> sender_ecdsa_private_key,
                            keys |-> keys, sendExc |-> sendExc],
                    res |-> r]
        /\ sent' = IF "send_message" \in {r.calls[i] : i \in 1..Len(r.calls)}
                      /\ r.exc = "none"
                   THEN sent \cup {r.envelope} ELSE sent
        /\ current_token' = IF r.clear_token THEN FALSE ELSE current_token
        /\ UNCHANGED <<delivered, acked>>
        /\ UNCHANGED nonEncVars

ProcessIncomingMessage ==
    /\ call.op = "idle"
    /\ \E m \in Inbound,
       user_private_key \in {Key("xpriv", "b1"), Key("xpriv", "b2")},
       keys \in {k \in DirectoryAnswers :
                    k.exc = "none" => /\ k.ecdh_public_key = Key("xpub", "b1")
                                      /\ k.ecdh_signature = Sig("bob", Key("xpub", "b1"))},
       ackExc \in ApiOutcomes :
        LET r == _process_incoming_message(m, user_private_key, keys, ackExc) IN
        /\ call' = [op |-> "_process_incoming_message",
                    in |-> [m |-> m, user_private_key |-> user_private_key,
                            keys |-> keys, ackExc |-> ackExc],
                    res |-> r]
        /\ delivered' = delivered \cup r.callback
        /\ acked' = acked \cup r.acked
        \* self._message_callback: MessengerManager._handle_websocket_message
        /\ contact_ecdh' =
             LET w == {_handle_websocket_message(
                          [decryption_status |-> e.decryption_status,
                           ephemeral_public_key |-> m.ephemeral_public_key]).written :
                       e \in r.callback} \ {EmptyKey}
             IN IF w = {} THEN contact_ecdh ELSE CHOOSE k \in w : TRUE
        /\ UNCHANGED <<sent, current_token>>
        /\ UNCHANGED <<rotVars, vaultVars, wsVars, loadVars>>

GetUndeliveredMessages ==
    /\ call.op = "idle"
    /\ \E ecdsa_public_key \in {Key("ecpub", "alice"), EmptyKey},
       recipient_ecdh_private_key \in {Key("xpriv", "b1")},
       exc \in ApiOutcomes,
       batch \in Batches,
       ackExc \in ApiOutcomes :
        LET resp == [exc |-> exc, messages |-> batch]
            r == get_undelivered_messages(ecdsa_public_key, recipient_ecdh_private_key,
                                          resp, ackExc)
        IN
        /\ call' = [op |-> "get_undelivered_messages",
                    in |-> [ecdsa_public_key |-> ecdsa_public_key,
                            recipient_ecdh_private_key |-> recipient_ecdh_private_key,
                            resp |-> resp, ackExc |-> ackExc],
                    res |-> r]
        /\ acked' = acked \cup r.acked
        /\ current_token' = IF r.clear_token THEN FALSE ELSE current_token
        /\ UNCHANGED <<sent, delivered>>
        /\ UNCHANGED nonEncVars

\* What the directory answers for the contact bob on a status push.
StatusAnswers ==
    {[exc |-> e, ecdh_public_key |-> EmptyKey, ecdh_signature |-> EmptySig,
      ecdsa_public_key |-> EmptyKey] : e \in ApiOutcomes \ {"none"}}
    \cup
    {[exc |-> "none", ecdh_public_key |-> k, ecdh_signature |-> g,
      ecdsa_public_key |-> e] :
        k \in {Key("xpub", "b1"), Key("xpub", "b2"), Key("xpub", "m1")},
        g \in {Sig("bob", Key("xpub", "b1")), Sig("bob", Key("xpub", "b2")),
               Sig("mallory", Key("xpub", "m1")), NotDerSig},
        e \in {Key("ecpub", "bob"), Key("ecpub", "mallory")}}

\* What /contacts and /users answer for the contact bob.
ContactAnswers ==
    {[exc |-> e, users_data |-> <<>>] : e \in ApiOutcomes}
    \cup
    {[exc |-> "none",
      users_data |-> <<[ecdsa_public_key |-> a.ecdsa_public_key,
                        ecdh_public_key |-> a.ecdh_public_key,
                        ecdh_signature |-> a.ecdh_signature]>>] :
        a \in {x \in StatusAnswers : x.exc = "none"}}

\* A user_status frame arrives on the websocket.
HandleUserStatus ==
    /\ call.op = "idle"
    /\ \E keys \in StatusAnswers :
        LET r == _handle_user_status(keys) IN
        /\ call' = [op |-> "_handle_user_status", in |-> [keys |-> keys], res |-> r]
        /\ contact_ecdh' = IF "update_contact" \in {r.calls[i] : i \in 1..Len(r.calls)}
                           THEN r.written ELSE contact_ecdh
    /\ UNCHANGED <<sent, delivered, acked, current_token>>
    /\ UNCHANGED <<rotVars, vaultVars, wsVars, loadVars>>

SynchronizeContacts ==
    /\ call.op = "idle"
    /\ \E resp \in ContactAnswers, ecdsa_dict \in {EmptyKey, Key("ecpub", "bob")} :
        LET r == synchronize_contacts(resp, ecdsa_dict) IN
        /\ call' = [op |-> "synchronize_contacts",
                    in |-> [resp |-> resp, ecdsa_dict |-> ecdsa_dict], res |-> r]
        /\ contact_ecdh' = IF "update_contact" \in {r.calls[i] : i \in 1..Len(r.calls)}
                           THEN r.written ELSE contact_ecdh
    /\ UNCHANGED <<sent, delivered, acked, current_token>>
    /\ UNCHANGED <<rotVars, vaultVars, wsVars, loadVars>>

-----------------------------------------------------------------------------
(* The cipher alone: a blob is sealed, and opened as it is or with one bit  *)
(* of the string changed on the way.                                        *)

MaxNonces == 2

AesPlaintexts == {<<>>, <<"h">>, <<"e'">>, <<"h", "e'">>}
AesKeys ==
    {[t |-> "shared", ks |-> {"a1", "b1"}], [t |-> "shared", ks |-> {"a1", "b2"}],
     [t |-> "short", ks |-> {}]}

\* The single-bit changes of a base64 string: a bit of a character that
\* carries bit of byte i; an unused trailing bit of the last character (there
\* are some unless the length is a multiple of 3); a bit that takes a
\* character out of the alphabet; a bit that turns a padding sign into a
\* character of the alphabet.
Flips(str) ==
    {[kind |-> "byte", i |-> i] : i \in 1..Len(str.bytes)}
    \cup {[kind |-> "nonalpha", i |-> 0]}
    \cup (IF Len(str.bytes) % 3 # 0
          THEN {[kind |-> "slack", i |-> 0], [kind |-> "pad", i |-> 0]}
          ELSE {})

Flip(str, f) ==
    CASE f.kind = "byte" -> [str EXCEPT !.bytes[f.i].x = 1]
      [] f.kind = "slack" -> [str EXCEPT !.slack = 1]
      [] f.kind = "nonalpha" -> [str EXCEPT !.alpha = FALSE]
      [] f.kind = "pad" ->
            [str EXCEPT !.bytes = Append(@, [Cell("junk", 0, {}, <<>>, 0) EXCEPT !.x = 1]),
                        !.slack = 0]
      [] OTHER -> str

AesEncrypt ==
    /\ call.op = "idle"
    /\ \E plaintext \in AesPlaintexts, key \in AesKeys, r \in 1..MaxNonces :
        call' = [op |-> "encrypt",
                 in |-> [plaintext |-> plaintext, key |-> key],
                 res |-> encrypt(plaintext, key, r)]
    /\ UNCHANGED <<sent, delivered, acked, current_token>>
    /\ UNCHANGED nonEncVars

\* The blob of the last encrypt call comes back, untouched (flip "none") or
\* with one bit changed.
AesDecrypt ==
    /\ call.op = "encrypt"
    /\ call.res.exc = "none"
    /\ \E key \in AesKeys,
          f \in Flips(call.res.out) \cup {[kind |-> "none", i |-> 0]} :
        LET b64_ciphertext == Flip(call.res.out, f) IN
        call' = [op |-> "decrypt",
                 in |-> [b64_ciphertext |-> b64_ciphertext, key |-> key,
                         flip |-> f, sealed |-> call.in],
                 res |-> decrypt(b64_ciphertext, key)]
    /\ UNCHANGED <<sent, delivered, acked, current_token>>
    /\ UNCHANGED nonEncVars

-----------------------------------------------------------------------------
(* Actions of the session: registration, login, key rotation, logout *)

Steps == {"none", "generate", "sign", "publish", "publish_lost"}
RegisterSteps == {"none", "generate", "register", "master", "store_ecdsa",
                  "store_ecdh", "login", "user_info", "add_user"}
LoginSteps == {"none", "password", "login", "user_info"}

\* authenticate_user without a local record: _register_new_user
RegisterNewUser ==
    /\ ~local_user
    /\ keyctr < MaxKeys
    /\ \E fail \in RegisterSteps :
        LET k == keyctr + 1
            r == _register_new_user(state, vault, k, fail, directory, announced)
        IN
        /\ keyctr' = k
        /\ state' = r.state
        /\ vault' = r.vault
        /\ directory' = r.directory
        /\ announced' = r.announced
        /\ local_user' = r.local_user
        /\ UNCHANGED rot
    /\ UNCHANGED nonRotVars

\* authenticate_user with a local record: _login_existing_user
LoginExistingUser ==
    /\ local_user
    /\ \E fail \in LoginSteps :
        state' = _login_existing_user(state, vault, fail).state
    /\ UNCHANGED <<vault, directory, announced, rot, keyctr, local_user>>
    /\ UNCHANGED nonRotVars

RotateKeys ==
    /\ keyctr < MaxKeys
    /\ \E fail \in Steps, storeOk \in BOOLEAN :
        LET k == keyctr + 1
            r == rotate_keys(state, vault, k, fail, storeOk, directory, announced)
        IN
        /\ keyctr' = IF r.trace = <<>> THEN keyctr ELSE k
        /\ state' = r.state
        /\ vault' = r.vault
        /\ directory' = r.directory
        /\ announced' = r.announced
        /\ rot' = [trace |-> r.trace, ok |-> r.ok, key |-> k, fail |-> fail,
                   storeOk |-> storeOk,
                   before |-> [state |-> state, vault |-> vault, directory |-> directory]]
    /\ UNCHANGED local_user
    /\ UNCHANGED nonRotVars

\* AuthManager.logout
Logout ==
    /\ state' = clear(state)
    /\ UNCHANGED <<vault, directory, announced, rot, keyctr, local_user>>
    /\ UNCHANGED nonRotVars

\* The process ends and a new one starts: the session is a fresh AppState.
Restart ==
    /\ state' = InitState
    /\ UNCHANGED <<vault, directory, announced, rot, keyctr, local_user>>
    /\ UNCHANGED nonRotVars

-----------------------------------------------------------------------------
(* Specifications *)

-----------------------------------------------------------------------------
(* The loading screen after a login *)

\* The screen is shown after a login, or RETRY INITIALIZATION is clicked.
PrepareScreen ==
    /\ state.is_authenticated
    /\ loading.pc \in {"off", "error"}
    /\ loading' = prepare_screen(loading)
    /\ UNCHANGED <<encVars, rotVars, contactVars, vaultVars, wsVars>>

\* The application is closed and opened again: a fresh AppState and a fresh
\* loading screen; the keyring, the server and the local database remain.
Reopen ==
    /\ loading.pc # "off"
    /\ state' = InitState
    /\ loading' = InitLoading
    /\ UNCHANGED <<vault, directory, announced, rot, keyctr, local_user>>
    /\ UNCHANGED <<encVars, contactVars, vaultVars, wsVars>>

\* The task of execute_loading_process announces its next step.
BeginStep ==
    /\ loading.pc = "running"
    /\ ~loading.executing
    /\ loading' = begin_loading_step(loading)
    /\ UNCHANGED <<encVars, rotVars, contactVars, vaultVars, wsVars>>

\* The task of execute_loading_process runs the method of the step.
LoadStep ==
    /\ loading.pc = "running"
    /\ loading.executing
    /\ loading.current_step = 3 => keyctr < MaxKeys
    /\ \E resp \in ContactAnswers, ecdsa_dict \in {EmptyKey, Key("ecpub", "bob")},
          dbOk \in BOOLEAN, fail \in Steps, storeOk \in BOOLEAN :
        LET i == loading.current_step
            c == synchronize_contacts(resp, ecdsa_dict)
            m == sync_message_history(state, dbOk)
            k == keyctr + 1
            r == rotate_keys(state, vault, k, fail, storeOk, directory, announced)
            success == IF i = 1 THEN dbOk ELSE IF i = 2 THEN m.ok ELSE r.ok
            l == execute_loading_step(loading, success)
        IN
        /\ loading' = IF i = 2
                      THEN [l EXCEPT !.fetched = m.fetched,
                                     !.fetched_with = m.fetched_with]
                      ELSE IF i = 3
                      THEN [l EXCEPT !.rotating_from = state.ecdh_private_key]
                      ELSE l
        /\ contact_ecdh' = IF i = 1 /\ dbOk /\ "update_contact" \in {c.calls[j] : j \in 1..Len(c.calls)}
                           THEN c.written ELSE contact_ecdh
        /\ keyctr' = IF i = 3 /\ r.trace # <<>> THEN k ELSE keyctr
        /\ state' = IF i = 3 THEN r.state ELSE state
        /\ vault' = IF i = 3 THEN r.vault ELSE vault
        /\ directory' = IF i = 3 THEN r.directory ELSE directory
        /\ announced' = IF i = 3 THEN r.announced ELSE announced
        /\ rot' = IF i = 3
                  THEN [trace |-> r.trace, ok |-> r.ok, key |-> k, fail |-> fail,
                        storeOk |-> storeOk,
                        before |-> [state |-> state, vault |-> vault,
                                    directory |-> directory]]
                  ELSE rot
    /\ UNCHANGED <<encVars, local_user, vaultVars, wsVars>>

-----------------------------------------------------------------------------
(* The websocket listener: calls of the service, the listening task and the  *)
(* server *)

MaxPush == 2
Sessions == {1, 2}
FrameTypes == {"message", "user_status", "pong"}

StartWebsocketListener ==
    /\ call.op = "idle"
    /\ \E n \in Sessions, ok \in BOOLEAN :
        LET r == start_websocket_listener(ws, n, n, n, ok) IN
        /\ call' = [op |-> "start_websocket_listener",
                    in |-> [token |-> n, ok |-> ok, before |-> ws],
                    res |-> r]
        /\ ws' = r.w
    /\ UNCHANGED nonWsVars

StopWebsocketListener ==
    /\ call.op = "idle"
    /\ call' = [op |-> "stop_websocket_listener", in |-> [before |-> ws],
                res |-> [w |-> stop_websocket_listener(ws)]]
    /\ ws' = stop_websocket_listener(ws)
    /\ UNCHANGED nonWsVars

GetConnectionStatus ==
    /\ call.op = "idle"
    /\ call' = [op |-> "get_connection_status", in |-> [before |-> ws],
                res |-> get_connection_status(ws)]
    /\ UNCHANGED ws
    /\ UNCHANGED nonWsVars

\* The event loop runs the listening task up to its next await.
ListenStep ==
    /\ ListenEnabled(ws)
    /\ \E ok \in BOOLEAN : ws' = listen_for_messages(ws, ok)
    /\ UNCHANGED call
    /\ UNCHANGED nonWsVars

\* The server sends a frame on the open socket.
ServerPush ==
    /\ ws.websocket = "open"
    /\ ws.pushed < MaxPush
    /\ \E type \in FrameTypes :
        ws' = [ws EXCEPT !.inbox = Append(@, type), !.pushed = @ + 1]
    /\ UNCHANGED call
    /\ UNCHANGED nonWsVars

\* The server closes the socket.
ServerClose ==
    /\ ws.websocket = "open"
    /\ ws' = [ws EXCEPT !.websocket = "closed"]
    /\ UNCHANGED call
    /\ UNCHANGED nonWsVars

-----------------------------------------------------------------------------
(* The HTTP client *)

MaxRetries == 3
HttpOutcomes ==
    {Status(c) : c \in {200, 302, 400, 401, 403, 404, 500, 503}}
        \cup {[kind |-> "RequestError", code |-> 0], [kind |-> "Exception", code |-> 0]}

RequestWithRetry ==
    /\ call.op = "idle"
    /\ \E max_retries \in 1..MaxRetries :
       \E outs \in [1..max_retries -> HttpOutcomes] :
        call' = [op |-> "_request_with_retry",
                 in |-> [outs |-> outs, max_retries |-> max_retries],
                 res |-> _request_with_retry(outs, max_retries)]
    /\ UNCHANGED <<sent, delivered, acked, current_token>>
    /\ UNCHANGED nonEncVars

-----------------------------------------------------------------------------
(* The key storage: one action per method of EncryptedKeyStorage.           *)

MaxDraws == 2

KeyTexts == {<<"h">>, <<"e'">>}
Passwords == {"p", "q"}
\* who asks and with which password, one empty at most
Logins == {[username |-> "bob", password |-> p] : p \in Passwords}
            \cup {[username |-> "", password |-> "p"], [username |-> "bob", password |-> ""]}
\* which of the two keyring calls of a method raise KeyringError
KeyringOutcomes == {[ok1 |-> TRUE, ok2 |-> TRUE], [ok1 |-> FALSE, ok2 |-> TRUE],
                    [ok1 |-> TRUE, ok2 |-> FALSE]}

NotStored == [stored |-> FALSE, key |-> <<>>, under |-> <<>>]
InitHist == [registered |-> FALSE, password |-> "", master_key |-> <<>>,
             ecdh |-> NotStored, ecdsa |-> NotStored]

RegisterMasterKey ==
    /\ call.op = "idle"
    /\ \E l \in Logins, g \in 1..MaxDraws, o \in KeyringOutcomes :
        LET r == register_master_key(keyring, l.username, l.password, g, g, g, o.ok1, o.ok2) IN
        /\ call' = [op |-> "register_master_key",
                    in |-> [username |-> l.username, password |-> l.password,
                            ok1 |-> o.ok1, ok2 |-> o.ok2,
                            before |-> keyring.master, was |-> hist],
                    res |-> r.ret]
        /\ keyring' = r.kr
        /\ hist' = IF r.ret
                   THEN [hist EXCEPT !.registered = TRUE, !.password = l.password,
                                     !.master_key = generate_master_key(g)]
                   ELSE hist
    /\ UNCHANGED tasks
    /\ UNCHANGED nonVaultVars

GetMasterKey ==
    /\ call.op = "idle"
    /\ \E l \in Logins, ok1 \in BOOLEAN :
        call' = [op |-> "get_master_key",
                 in |-> [username |-> l.username, password |-> l.password, ok1 |-> ok1],
                 res |-> get_master_key(keyring, l.username, l.password, ok1)]
    /\ UNCHANGED vaultVars
    /\ UNCHANGED nonVaultVars

\* store_ecdh_private_key and store_ecdsa_private_key.  No method of the
\* storage compares nonces, so the stores all take the first draw.
StorePrivateKey(service) ==
    /\ call.op = "idle"
    /\ \E l \in Logins, key \in KeyTexts \cup {<<>>}, o \in KeyringOutcomes :
        LET r == 1
            st == IF service = "ecdh"
                  THEN store_ecdh_private_key(keyring, l.username, key, l.password, r, o.ok1, o.ok2)
                  ELSE store_ecdsa_private_key(keyring, l.username, l.password, key, r, o.ok1, o.ok2)
        IN
        /\ key = <<>> => l \in {[username |-> "bob", password |-> "p"]}
        /\ call' = [op |-> "store_" \o service \o "_private_key",
                    in |-> [username |-> l.username, password |-> l.password, key |-> key,
                            ok1 |-> o.ok1, ok2 |-> o.ok2],
                    res |-> st.ret]
        /\ keyring' = st.kr
        /\ hist' = IF st.ret
                   THEN [hist EXCEPT ![service] = [stored |-> TRUE, key |-> key,
                                                   under |-> hist.master_key]]
                   ELSE hist
    /\ UNCHANGED tasks
    /\ UNCHANGED nonVaultVars

StoreEcdhPrivateKey == StorePrivateKey("ecdh")
StoreEcdsaPrivateKey == StorePrivateKey("ecdsa")

\* get_ecdh_private_key and get_ecdsa_private_key
GetPrivateKey(service) ==
    /\ call.op = "idle"
    /\ \E l \in Logins, o \in KeyringOutcomes :
        call' = [op |-> "get_" \o service \o "_private_key",
                 in |-> [username |-> l.username, password |-> l.password,
                         ok1 |-> o.ok1, ok2 |-> o.ok2],
                 res |-> IF service = "ecdh"
                         THEN get_ecdh_private_key(keyring, l.username, l.password, o.ok1, o.ok2)
                         ELSE get_ecdsa_private_key(keyring, l.username, l.password, o.ok1, o.ok2)]
    /\ UNCHANGED vaultVars
    /\ UNCHANGED nonVaultVars

GetEcdhPrivateKey == GetPrivateKey("ecdh")
GetEcdsaPrivateKey == GetPrivateKey("ecdsa")

ClearEcdhKey ==
    /\ call.op = "idle"
    /\ \E username \in {"bob", ""}, ok1 \in BOOLEAN :
        LET c == clear_ecdh_key(keyring, username, ok1) IN
        /\ call' = [op |-> "clear_ecdh_key", in |-> [username |-> username, ok1 |-> ok1],
                    res |-> c.ret]
        /\ keyring' = c.kr
        /\ hist' = IF c.ret THEN [hist EXCEPT !.ecdh = NotStored] ELSE hist
    /\ UNCHANGED tasks
    /\ UNCHANGED nonVaultVars

\* Calls of store_ecdh_private_key that run concurrently on the event loop.
MaxTasks == 2

\* a call is made: the coroutine is scheduled
StartStore ==
    /\ Len(tasks) < MaxTasks
    /\ \E key \in KeyTexts, password \in Passwords :
        tasks' = Append(tasks, [username |-> "bob", key |-> key, password |-> password,
                                pc |-> "start", seen |-> NoEntry])
    /\ UNCHANGED <<call, keyring, hist>>
    /\ UNCHANGED nonVaultVars

\* the event loop resumes one of the suspended calls; a call that returned
\* leaves the loop
StoreStep ==
    /\ \E i \in DOMAIN tasks, ok \in BOOLEAN :
        LET r == store_ecdh_private_key_step(tasks[i], keyring, ok) IN
        /\ tasks' = IF r.t.pc = "done"
                    THEN SubSeq(tasks, 1, i - 1) \o SubSeq(tasks, i + 1, Len(tasks))
                    ELSE [tasks EXCEPT ![i] = r.t]
        /\ keyring' = r.kr
        /\ hist' = IF r.wrote
                   THEN [hist EXCEPT !.ecdh = [stored |-> TRUE, key |-> tasks[i].key,
                                               under |-> hist.master_key]]
                   ELSE hist
    /\ UNCHANGED call
    /\ UNCHANGED nonVaultVars

InitEnc ==
    /\ call = [op |-> "idle"]
    /\ sent = {}
    /\ delivered = {}
    /\ acked = {}
    /\ current_token = FALSE
    /\ contact_ecdh = EmptyKey

InitRot ==
    /\ state = InitState
    /\ vault = InitVault
    /\ directory = 0
    /\ announced = {}
    /\ rot = [trace |-> <<>>, ok |-> FALSE, key |-> 0, fail |-> "none",
              storeOk |-> FALSE,
              before |-> [state |-> InitState, vault |-> InitVault, directory |-> 0]]
    /\ keyctr = 0
    /\ local_user = FALSE

InitVaultVars ==
    /\ keyring = EmptyKeyring
    /\ hist = InitHist
    /\ tasks = <<>>

InitWsVars ==
    /\ ws = InitWs
    /\ loading = InitLoading

Init == InitEnc /\ InitRot /\ InitVaultVars /\ InitWsVars

\* The messaging services.
Next ==
    \/ VerifySignature
    \/ EncryptMessage
    \/ DecryptMessage
    \/ SetToken
    \/ Return
    \/ SendEncryptedMessage
    \/ ProcessIncomingMessage
    \/ GetUndeliveredMessages
    \/ HandleUserStatus
    \/ SynchronizeContacts

Spec == Init /\ [][Next]_vars

\* The session and its keys.
NextRot ==
    \/ RegisterNewUser
    \/ LoginExistingUser
    \/ RotateKeys
    \/ Logout
    \/ Restart

SpecRot == Init /\ [][NextRot]_vars

\* The cipher.
NextAes ==
    \/ AesEncrypt
    \/ AesDecrypt
    \/ Return

SpecAes == Init /\ [][NextAes]_vars

\* The key storage.
NextVault ==
    \/ RegisterMasterKey
    \/ GetMasterKey
    \/ StoreEcdhPrivateKey
    \/ StoreEcdsaPrivateKey
    \/ GetEcdhPrivateKey
    \/ GetEcdsaPrivateKey
    \/ ClearEcdhKey
    \/ Return

SpecVault == Init /\ [][NextVault]_vars

\* Concurrent stores and clears of the ECDH entry, a master key registered.
Registered == register_master_key(EmptyKeyring, "bob", "p", 1, 1, 1, TRUE, TRUE).kr

InitTasks ==
    /\ InitEnc
    /\ InitRot
    /\ keyring = Registered
    /\ hist = [InitHist EXCEPT !.registered = TRUE, !.password = "p",
                               !.master_key = generate_master_key(1)]
    /\ tasks = <<>>
    /\ InitWsVars

NextTasks ==
    \/ StartStore
    \/ StoreStep
    \/ ClearEcdhKey
    \/ Return

SpecTasks == InitTasks /\ [][NextTasks]_vars

\* The websocket listener.
NextWs ==
    \/ StartWebsocketListener
    \/ StopWebsocketListener
    \/ GetConnectionStatus
    \/ ListenStep
    \/ ServerPush
    \/ ServerClose
    \/ Return

SpecWs == Init /\ [][NextWs]_vars

\* The HTTP client.
NextHttp ==
    \/ RequestWithRetry
    \/ Return

SpecHttp == Init /\ [][NextHttp]_vars

\* The loading screen after a registration or a login.
NextLoad ==
    \/ RegisterNewUser
    \/ LoginExistingUser
    \/ PrepareScreen
    \/ BeginStep
    \/ LoadStep
    \/ Reopen

SpecLoad == Init /\ [][NextLoad]_vars

-----------------------------------------------------------------------------
(* Properties of EncryptionService and MessageHTTPService *)

Calls(r) == {r.calls[i] : i \in 1..Len(r.calls)}

\* The boolean the signer answers for the key binding an encrypt_message call
\* is given, when it answers at all.
EncBinding(in) ==
    verify_signature(in.recipient_ecdsa_public_key, in.recipient_ecdh_public_key,
                     in.recipient_ecdh_signature)

\* The same for the key binding attached to an inbound message.
DecBinding(in) ==
    verify_signature(in.sender_ecdsa_public_key, in.ephemeral_ecdh_public_key,
                     in.ephemeral_signature)

\* C1: an encrypt_message call whose check of the recipient's agreement key
\* against the recipient's signing key answers false ends in SecurityError,
\* has called none of sign_string, derive_shared_key and encrypt, and returns
\* no ciphertext.
C1_EncryptFailsClosed ==
    (/\ call.op = "encrypt_message"
     /\ EncBinding(call.in).exc = "none"
     /\ ~EncBinding(call.in).val)
    => /\ call.res.exc = "SecurityError"
       /\ call.res.calls = <<"verify_signature">>
       /\ call.res.ct = NoCt

\* A record whose signature was made by another signing key than the one the
\* recipient is known by was refused.
C1_Witness ==
    /\ call.op = "encrypt_message"
    /\ call.in.recipient_ecdsa_public_key = Key("ecpub", "bob")
    /\ call.in.recipient_ecdh_public_key = Key("xpub", "m1")
    /\ call.in.recipient_ecdh_signature = Sig("mallory", Key("xpub", "m1"))
    /\ call.res.exc = "SecurityError"

\* C2: every decrypt_message call starts with the signature check of the
\* attached agreement key; derive_shared_key and decrypt are called only after
\* the check answered true, and a check that answers false ends the call in
\* SecurityError without a plaintext.
C2_DecryptVerifiesFirst ==
    call.op = "decrypt_message"
    => /\ Len(call.res.calls) >= 1
       /\ call.res.calls[1] = "verify_signature"
       /\ (Calls(call.res) \cap {"derive_shared_key", "decrypt"} # {}
            => DecBinding(call.in) = [exc |-> "none", val |-> TRUE])
       /\ (DecBinding(call.in) = [exc |-> "none", val |-> FALSE]
            => call.res.exc = "SecurityError" /\ call.res.plain = NoPlain)

C4_NoSendAfterSecurityError ==
    (/\ call.op = "send_encrypted_message"
     /\ call.in.keys.exc = "none"
     /\ verify_signature(call.in.recipient_ecdsa_public_key,
                         call.in.keys.ecdh_public_key,
                         call.in.keys.ecdh_signature) = [exc |-> "none", val |-> FALSE])
    => /\ call.res.enc = "SecurityError"
       /\ "send_message" \notin Calls(call.res)
       /\ call.res.envelope = NoEnvelope
       /\ call.res.exc # "none"
       /\ sent = {}

\* The directory answered with mallory's key under mallory's signature, and
\* the send was abandoned.
C4_Witness ==
    /\ call.op = "send_encrypted_message"
    /\ call.in.recipient_ecdsa_public_key = Key("ecpub", "bob")
    /\ call.in.keys.exc = "none"
    /\ call.in.keys.ecdh_public_key = Key("xpub", "m1")
    /\ call.in.keys.ecdh_signature = Sig("mallory", Key("xpub", "m1"))
    /\ call.in.sendExc = "none"
    /\ call.res.enc = "SecurityError"
    /\ call.res.calls = <<"get_public_keys", "encrypt_message">>

\* C5: for an inbound message whose sender-key signature does not verify, the
\* push path hands the callback an entry for that message marked failed, and
\* the pull path returns such an entry for every message of the batch.
C5_FailedMessageReported ==
    /\ (/\ call.op = "_process_incoming_message"
        /\ call.in.keys.exc = "none"
        /\ verify_signature(call.in.keys.ecdsa_public_key,
                            call.in.m.ephemeral_public_key,
                            call.in.m.ephemeral_signature) = [exc |-> "none", val |-> FALSE])
        => \E e \in call.res.callback :
              e.id = call.in.m.id /\ e.decryption_status \in {"failed", "error"}
    /\ (/\ call.op = "get_undelivered_messages"
        /\ call.in.resp.exc = "none"
        /\ call.in.ackExc = "none")
        => /\ Len(call.res.out) = Len(call.in.resp.messages)
           /\ \A i \in 1..Len(call.res.out) :
                 LET m == call.in.resp.messages[i] IN
                 /\ call.res.out[i].id = m.id
                 /\ verify_signature(call.in.ecdsa_public_key, m.ephemeral_public_key,
                                     m.ephemeral_signature) # [exc |-> "none", val |-> TRUE]
                     => /\ call.res.out[i].decryption_status \in {"failed", "error"}
                        /\ call.res.out[i].decrypted_content = NoPlain

\* C6: verify_signature answers false without raising when key and signature are
\* well-formed and do not match, and raises, never answering false, when the
\* public key or the signature is malformed.
C6_VerifyTellsMismatchFromMalformed ==
    call.op = "verify_signature"
    => /\ (/\ call.in.public_key_pem.t = "ecpub"
           /\ call.in.message.t # "empty"
           /\ call.in.signature.t = "sig"
           /\ ~(/\ call.in.signature.by = call.in.public_key_pem.id
                /\ call.in.signature.msg = call.in.message))
           => call.res = [exc |-> "none", val |-> FALSE]
       /\ (\/ call.in.public_key_pem.t # "ecpub"
           \/ call.in.signature.t # "sig")
           => call.res.exc # "none"

\* C7: when alice encrypts a plaintext for bob under bob's validly signed
\* directory record, bob's decrypt_message of what alice's encrypt_message
\* returned, with his agreement private key and alice's signing public key,
\* returns that plaintext.
C7_RoundTrip ==
    (/\ call.op = "encrypt_message"
     /\ call.in.sender_ecdsa_private_key = Key("ecpriv", "alice")
     /\ call.in.ephemeral_ecdh_private_key = Key("xpriv", "a1")
     /\ call.in.ephemeral_ecdh_public_key = Key("xpub", "a1")
     /\ call.in.recipient_ecdsa_public_key = Key("ecpub", "bob")
     /\ call.in.recipient_ecdh_public_key = Key("xpub", "b1")
     /\ call.in.recipient_ecdh_signature = Sig("bob", Key("xpub", "b1")))
    => /\ call.res.exc = "none"
       /\ decrypt_message(call.res.ct, Key("ecpub", "alice"), Key("xpriv", "b1"),
                          call.in.ephemeral_ecdh_public_key, call.res.sig)
            = [exc |-> "none", plain |-> call.in.message,
               calls |-> <<"verify_signature", "derive_shared_key", "decrypt">>]

\* C8: decrypting, with the agreement private key of after a rotation, a
\* message sealed under the agreement public key of before it ends in the
\* authentication failure of the cipher and yields no plaintext.
C8_OldKeyMessageFailsAuthentication ==
    (/\ call.op = "decrypt_message"
     /\ call.in.encrypted_message = Ct([ks |-> {"a1", "b1"}], "hello bob")
     /\ call.in.sender_ecdsa_public_key = Key("ecpub", "alice")
     /\ call.in.ephemeral_ecdh_public_key = Key("xpub", "a1")
     /\ call.in.ephemeral_signature = Sig("alice", Key("xpub", "a1"))
     /\ call.in.recipient_ecdh_private_key = Key("xpriv", "b2"))
    => /\ call.res.exc = "DecryptionError"
       /\ call.res.plain = NoPlain

-----------------------------------------------------------------------------
(* Properties of key rotation *)

FullRotation == <<"generate", "sign", "publish", "clear", "store", "swap">>

\* C9: a rotate_keys run in which the directory took the new key and the
\* keyring accepts writes performs generate, sign, publish, clear, store and
\* swap in this order: the vault then holds the new key and the session uses it.
C9_RotationOrder ==
    (/\ rot.trace # <<>>
     /\ rot.fail = "none"
     /\ rot.before.state.token
     /\ rot.before.state.ecdsa_private_key
     /\ rot.storeOk)
    => /\ rot.ok
       /\ rot.trace = FullRotation

\* C10: the agreement private key the session holds as active belongs to a
\* key pair whose public key was published to the directory.
C10_ActiveKeyWasAnnounced ==
    state.ecdh_private_key # 0 => state.ecdh_private_key \in announced

\* A rotation failed after the directory took the new key: the session still
\* holds the key of before, which the directory had been given earlier.
C10_Witness ==
    /\ rot.trace = <<"generate", "sign", "publish">>
    /\ ~rot.ok
    /\ directory = rot.key
    /\ state.ecdh_private_key # 0
    /\ state.ecdh_private_key # directory

\* C11: once a rotate_keys run has ended, whatever its outcome, the vault holds
\* the private key of the agreement key the directory lists for the user.
C11_AnnouncedKeyIsPersisted ==
    (rot.trace # <<>> /\ directory # 0) => vault.ecdh = directory

-----------------------------------------------------------------------------
(* Properties of AES256GCMCipher *)

\* C13: decrypt, under the key a blob was sealed with, of the blob encrypt
\* returned, returns the plaintext that was sealed.
C13_AesRoundTrip ==
    (/\ call.op = "decrypt"
     /\ call.in.flip.kind = "none"
     /\ call.in.key = call.in.sealed.key)
    => call.res = [exc |-> "none", out |-> call.in.sealed.plaintext]

\* A two-character text with a two-byte character came back as it was.
C13_Witness ==
    /\ call.op = "decrypt"
    /\ call.in.flip.kind = "none"
    /\ call.in.key = call.in.sealed.key
    /\ call.in.sealed.plaintext = <<"h", "e'">>
    /\ Len(call.in.b64_ciphertext.bytes) = MinBlob + 3
    /\ call.res.out = <<"h", "e'">>

\* C14: decrypt, under the sealing key, of a blob of encrypt with any single
\* bit changed ends in the authentication failure of the cipher and returns
\* no plaintext.
C14_BitFlipFailsAuthentication ==
    (/\ call.op = "decrypt"
     /\ call.in.flip.kind # "none"
     /\ call.in.key = call.in.sealed.key)
    => call.res = [exc |-> "DecryptionError", out |-> <<>>]

\* The key storage.
VaultService(op) == IF op = "get_ecdh_private_key" THEN "ecdh" ELSE "ecdsa"
EntryParts(entry) == [i \in 1..Len(entry.str.bytes) |-> entry.str.bytes[i].part]
Repeat(part, n) == [i \in 1..n |-> part]
\* nonce, tag, ciphertext after a prefix
Layout(prefix, parts) ==
    /\ Len(parts) >= Len(prefix) + MinBlob
    /\ parts = prefix \o Repeat("nonce", NonceLen) \o Repeat("tag", TagLen)
                 \o Repeat("ct", Len(parts) - Len(prefix) - MinBlob)

\* C15: register_master_key returns false when a master-key entry already
\* exists, and then the entry is left as it was: get_master_key with the
\* original password still returns the original master key.
C15_RegisterLeavesExistingEntry ==
    (call.op = "register_master_key" /\ call.in.before.present) =>
        /\ call.res = FALSE
        /\ keyring.master = call.in.before
        /\ get_master_key(keyring, "bob", call.in.was.password, TRUE) = call.in.was.master_key

\* C16: once register_master_key succeeded with password p, get_master_key
\* with any other password returns no key bytes.
C16_WrongPasswordGivesNoKey ==
    (call.op = "get_master_key" /\ hist.registered /\ call.in.password # hist.password) =>
        call.res = None

C16_Witness ==
    /\ call.op = "get_master_key"
    /\ hist.registered
    /\ call.in.username = "bob"
    /\ call.in.password \notin {"", hist.password}
    /\ call.in.ok1
    /\ keyring.master.present
    /\ call.res = None

\* what get_master_key hands its caller in each of the three failures
NotFoundOutcome == get_master_key(EmptyKeyring, "bob", "p", TRUE)
AuthenticationFailedOutcome ==
    get_master_key(register_master_key(EmptyKeyring, "bob", "p", 1, 1, 1, TRUE, TRUE).kr, "bob", "q", TRUE)
VaultUnavailableOutcome ==
    get_master_key(register_master_key(EmptyKeyring, "bob", "p", 1, 1, 1, TRUE, TRUE).kr, "bob", "p", FALSE)

\* C17: what get_master_key returns for a missing entry, for a wrong
\* password and for an unavailable keyring tells the three apart.
C17_FailuresDistinguishable ==
    (call.op = "get_master_key" /\ call.in.username # "" /\ call.in.password # "") =>
        /\ ~call.in.ok1 =>
            call.res \notin {NotFoundOutcome, AuthenticationFailedOutcome}
        /\ (call.in.ok1 /\ ~keyring.master.present) =>
            call.res \notin {AuthenticationFailedOutcome, VaultUnavailableOutcome}
        /\ (call.in.ok1 /\ keyring.master.present /\ call.in.password # hist.password) =>
            call.res \notin {NotFoundOutcome, VaultUnavailableOutcome}

\* C18: a private key stored under the registered master key comes back
\* from the matching getter exactly as stored, until a later store or clear
\* of that entry; entries are laid out nonce, tag, ciphertext, the master-key
\* entry behind a 16-byte salt.
C18_VaultRoundTrip ==
    /\ (/\ call.op \in {"get_ecdh_private_key", "get_ecdsa_private_key"}
        /\ call.in.username = "bob"
        /\ call.in.password = hist.password
        /\ call.in.ok1 /\ call.in.ok2
        /\ hist[VaultService(call.op)].stored
        /\ hist[VaultService(call.op)].under = hist.master_key)
       => call.res = hist[VaultService(call.op)].key
    /\ keyring.master.present => Layout(Repeat("salt", SaltLen), EntryParts(keyring.master))
    /\ keyring.ecdh.present => Layout(<<>>, EntryParts(keyring.ecdh))
    /\ keyring.ecdsa.present => Layout(<<>>, EntryParts(keyring.ecdsa))

C18_Witness ==
    /\ call.op = "get_ecdh_private_key"
    /\ call.in.username = "bob"
    /\ call.in.password = hist.password
    /\ call.in.ok1 /\ call.in.ok2
    /\ hist.ecdh.stored
    /\ hist.ecdh.under = hist.master_key
    /\ call.res = <<"e'">>
    /\ keyring.ecdsa.present

\* the entry a complete store of key under master_key leaves
CompleteEntry(key, master_key) ==
    Entry(b64encode(encrypt_with_master_key(utf8_encode(key), master_key, 1)))

\* C19: whatever the interleaving of concurrent stores and clears of the
\* ECDH entry, once they have all returned the entry is absent if a clear
\* took effect last and is otherwise the complete value written by the
\* store that took effect last, never a mixture of two writes.
C19_StoresAndClearsSerialized ==
    tasks = <<>> =>
        IF hist.ecdh.stored
        THEN keyring.ecdh = CompleteEntry(hist.ecdh.key, hist.ecdh.under)
        ELSE ~keyring.ecdh.present

\* two stores of different keys in flight over an entry a third call wrote,
\* the later call the further on
C19_Witness ==
    /\ Len(tasks) = 2
    /\ tasks[1].key # tasks[2].key
    /\ tasks[1].pc = "decrypt_master_key"
    /\ tasks[2].pc = "encrypt_with_master_key"
    /\ hist.ecdh.stored
    /\ keyring.ecdh = CompleteEntry(hist.ecdh.key, hist.ecdh.under)

\* C20: a SecurityError ends the work on its message: encrypt_message and
\* decrypt_message make no engine call after the failed verification, and
\* send_encrypted_message makes no second encrypt_message call and no
\* send_message call, and hands the failure to its caller.
C20_NoRetryAfterSecurityError ==
    /\ (call.op \in {"encrypt_message", "decrypt_message"} /\ call.res.exc = "SecurityError")
       => call.res.calls = <<"verify_signature">>
    /\ (call.op = "send_encrypted_message" /\ call.res.enc = "SecurityError")
       => /\ call.res.calls = <<"get_public_keys", "encrypt_message">>
          /\ call.res.exc # "none"
          /\ call.res.envelope = NoEnvelope
          /\ sent = {}

\* A send refused for the recipient's key, after the refusal reached the
\* caller as the error of the call.
C20_Witness ==
    /\ call.op = "send_encrypted_message"
    /\ call.res.enc = "SecurityError"
    /\ call.res.exc = SendRaised("SecurityError")
    /\ Len(call.res.calls) = 2
    /\ ~call.res.clear_token

-----------------------------------------------------------------------------
(* Properties of error reporting *)

\* what a decrypt_message call with the inputs in would derive and decrypt
DecShared(in) == derive_shared_key(in.recipient_ecdh_private_key, in.ephemeral_ecdh_public_key)
DecOpened(in) == aes_decrypt(in.encrypted_message, DecShared(in).key)

\* the classes a technical fault of decrypt_message reaches the caller as
GenericTechnicalErrors == {"InfrastructureError", "NameError", "AttributeError"}

\* C21: a decrypt_message call whose signature check passed and whose
\* decrypt step failed the authentication of the cipher ends in an outcome
\* that is neither SecurityError nor the outcome of a technical fault.
C21_AuthenticationFailureIsDistinct ==
    (/\ call.op = "decrypt_message"
     /\ DecBinding(call.in) = [exc |-> "none", val |-> TRUE]
     /\ DecShared(call.in).exc = "none"
     /\ DecOpened(call.in).exc = "DecryptionError")
    => /\ call.res.exc # "SecurityError"
       /\ call.res.exc \notin GenericTechnicalErrors
       /\ DecryptRaised("DecryptionError") \notin GenericTechnicalErrors

\* what an encrypt_message call with the inputs in would sign and derive
EncSigned(in) == sign_string(in.sender_ecdsa_private_key, in.ephemeral_ecdh_public_key)
EncShared(in) == derive_shared_key(in.ephemeral_ecdh_private_key, in.recipient_ecdh_public_key)

\* C22: the error a primitive raises for an invalid key or an invalid
\* ciphertext inside encrypt_message or decrypt_message is the error the
\* call ends in.
C22_PrimitiveErrorsPropagate ==
    /\ (/\ call.op = "encrypt_message"
        /\ EncBinding(call.in) = [exc |-> "none", val |-> TRUE])
       => /\ EncSigned(call.in).exc # "none" => call.res.exc = EncSigned(call.in).exc
          /\ (EncSigned(call.in).exc = "none" /\ EncShared(call.in).exc # "none")
                => call.res.exc = EncShared(call.in).exc
    /\ (/\ call.op = "decrypt_message"
        /\ DecBinding(call.in) = [exc |-> "none", val |-> TRUE])
       => /\ DecShared(call.in).exc # "none" => call.res.exc = DecShared(call.in).exc
          /\ (/\ DecShared(call.in).exc = "none"
              /\ DecOpened(call.in).exc \in {"InvalidCiphertextError", "InvalidKeyError"})
                => call.res.exc = DecOpened(call.in).exc

-----------------------------------------------------------------------------
(* Properties of logout *)

\* C23: when a logout of a logged-in user has completed, the keyring holds
\* no entry of that user: no master key, no signing key, no agreement key.
C23_LogoutEmptiesVault ==
    [][(state.is_authenticated /\ state' = clear(state)) => vault' = InitVault]_vars

\* C29: when a logout has completed, the session holds no secret of the
\* session before: password, master key, signing private key, agreement
\* private key and token are unset and is_authenticated is false.
C29_LogoutClearsSession ==
    [][(state.is_authenticated /\ state' = clear(state))
        => /\ state'.password = FALSE
           /\ state'.master_key = FALSE
           /\ state'.ecdsa_private_key = FALSE
           /\ state'.ecdh_private_key = 0
           /\ state'.token = FALSE
           /\ ~state'.is_authenticated]_vars


-----------------------------------------------------------------------------
(* Properties of the websocket listener *)

C25_RestartedListenerRuns ==
    ws.is_listening => ws.task.st = "pending"

-----------------------------------------------------------------------------
(* Properties of CommonHTTPClient *)

\* The first exchange of a call that does not end in a retry: the attempt
\* the call stops at if errors are retried as the client is described to.
Retried(o) ==
    /\ ~(o.kind = "status" /\ 200 <= o.code /\ o.code < 300)
    /\ ~(o.kind = "status" /\ 400 <= o.code /\ o.code < 500)

\* C26: a call makes at most max_retries attempts and ends with a response
\* or an error; a 4xx answer ends the call at once with APIError, a 401 or
\* 403 answer ends it at once with AuthenticationError; after any other
\* failure the call goes on to the next attempt, and when the attempts are
\* used up the error of the last one is raised.
C26_RetryPolicy ==
    call.op = "_request_with_retry" =>
        LET outs == call.in.outs
            n == call.res.attempts
            last == outs[n]
        IN
        /\ n >= 1 /\ n <= call.in.max_retries
        /\ \A i \in 1..(n - 1) : Retried(outs[i])
        /\ Retried(last) => n = call.in.max_retries
        /\ (last.kind = "status" /\ last.code \in {401, 403})
            => call.res.exc = "AuthenticationError"
        /\ (last.kind = "status" /\ 400 <= last.code /\ last.code < 500
                /\ last.code \notin {401, 403})
            => call.res.exc = "APIError"
        /\ (last.kind = "status" /\ Retried(last)) => call.res.exc = "APIError"
        /\ last.kind = "RequestError" => call.res.exc = "NetworkError"
        /\ last.kind = "Exception" => call.res.exc = "InfrastructureError"
        /\ (last.kind = "status" /\ 200 <= last.code /\ last.code < 300)
            => call.res.exc = "none"

-----------------------------------------------------------------------------
(* Properties of the pull path *)

-----------------------------------------------------------------------------
(* Properties of the loading screen *)

RECURSIVE IsPrefix(_, _)
IsPrefix(a, b) ==
    IF a = <<>> THEN TRUE
    ELSE IF b = <<>> THEN FALSE
    ELSE Head(a) = Head(b) /\ IsPrefix(Tail(a), Tail(b))

====
